---- MODULE Spec2Model ----
(***************************************************************************)
(* Gesture recognition and adaptive learning engine (RebepiRBP/Senas).     *)
(* The module models the in-memory session statistics and comparison       *)
(* history of LearningService, the artifact cache and on-disk artifact of  *)
(* MLService, the background training of the models routes and the job     *)
(* table of TrainingService.                                               *)
(*                                                                         *)
(* Identifiers are sequences of one-character strings so that the f-string *)
(* keys of the code (f"{model_id}_{user_id}") are real concatenations.     *)
(* Confidences and similarities are hundredths (0.75 is 75).               *)
(***************************************************************************)
EXTENDS Integers, Sequences, FiniteSets, TLC

VARIABLES
    session_stats,      \* LearningService.session_stats of the long-lived instance
    comparison_cache,   \* LearningService.comparison_cache of the same instance
    hist,               \* per session key: isCorrect of the attempts served since the entry was created
    ret,                \* the last call served and what it returned
    nUpdates,           \* number of update_progress calls served
    nCompares,          \* number of compare_with_target calls served
    calls,              \* concurrent update_progress calls: position and arguments
    disk,               \* per model id: the files under MODEL_DIR/model_id
    cache,              \* per MLService instance and model id: models/label_encoders/scalers
    used,               \* the last predict call: its outcome and the components it ran with
    nextRun,            \* number of train_model runs started so far
    latest,             \* per model id: the last train_model run that returned (0: none)
    runModel,           \* per run: the model id it trained
    dbModels,           \* models table: per model id the status of its record ("none": no record)
    dbSessions,         \* training_sessions table: per model id the status of the session of its training
    bg,                 \* per model id: the background task added by create_model
    bgFails,            \* per model id: the persistence steps that failed in its training run
    training_jobs,      \* TrainingService.training_jobs of the long-lived instance, in insertion order
    poll,               \* the last status poll or cancel request and its answer
    applied             \* the last single function applied: its arguments and what it gave

learnVars == <<session_stats, comparison_cache, hist, ret, nUpdates, nCompares, calls>>

mlVars == <<disk, cache, used, nextRun, latest, runModel>>

dbVars == <<dbModels, dbSessions, bg, bgFails>>

jobVars == <<training_jobs, poll>>

vars == <<learnVars, mlVars, dbVars, jobVars, applied>>

-----------------------------------------------------------------------------
(* Bounds *)

MaxUpdates == 3
MaxCompares == 1
NumCalls == 3
MaxRuns == 2
MaxJobs == 2
MaxPerLabel == 8
MaxAttempts == 5
MaxInvocations == 2
MaxRefs == 6
MaxHistory == 52

-----------------------------------------------------------------------------
(* Identifiers and inputs *)

None == <<>>

ModelIds == {<<"m">>, <<"m", "_", "u">>}
UserIds == {<<"u">>, <<"u", "_", "u">>}
Labels == {<<"A">>, <<"u">>}
Confs == {50, 90}

ProgressInputs ==
    [isCorrect : BOOLEAN, confidence : Confs, similarity : {80},
     sessionTime : {5}, targetLabel : {<<"A">>}]

\* the attempts reported by concurrent requests
PracticeInputs ==
    [isCorrect : BOOLEAN, confidence : {90}, similarity : {80},
     sessionTime : {5}, targetLabel : {<<"A">>}]

\* the attempts reported while comparisons are being recorded
MatchedInputs ==
    [isCorrect : {TRUE}, confidence : {90}, similarity : {80},
     sessionTime : {5}, targetLabel : {<<"A">>}]

\* f"{model_id}_{user_id}"
SessionKey(model_id, user_id) == model_id \o <<"_">> \o user_id

\* cache_key of get_session_stats: the session id is optional
StatsCacheKey(model_id, session_id) ==
    IF session_id # None THEN model_id \o <<"_">> \o session_id ELSE model_id

Max(a, b) == IF a >= b THEN a ELSE b
Min(a, b) == IF a <= b THEN a ELSE b

-----------------------------------------------------------------------------
(* LearningService: session statistics *)

NewStats ==
    [totalAttempts |-> 0, correctAttempts |-> 0, totalConfidence |-> 0,
     totalSimilarity |-> 0, currentStreak |-> 0, bestStreak |-> 0,
     timeSpent |-> 0, labelProgress |-> <<>>]

NewLabelStats == [attempts |-> 0, successes |-> 0, confidenceSum |-> 0]

DefaultSessionStats ==
    [totalAttempts |-> 0, correctAttempts |-> 0, averageConfidence |-> 0,
     averageSimilarity |-> 0, successRate |-> 0, currentStreak |-> 0,
     bestStreak |-> 0, timeSpent |-> 0]

\* the streak and counter part of update_progress
ApplyAttemptKeepStreak(stats, p) ==
    [stats EXCEPT
        !.correctAttempts = IF p.isCorrect THEN @ + 1 ELSE @,
        !.currentStreak = @ + 1,
        !.bestStreak = IF p.isCorrect THEN Max(@, stats.currentStreak + 1) ELSE @,
        !.totalAttempts = @ + 1,
        !.totalConfidence = @ + p.confidence,
        !.totalSimilarity = @ + p.similarity,
        !.timeSpent = @ + p.sessionTime]

ApplyAttempt(stats, p) ==
    [stats EXCEPT
        !.correctAttempts = IF p.isCorrect THEN @ + 1 ELSE @,
        !.currentStreak = IF p.isCorrect THEN @ + 1 ELSE 0,
        !.bestStreak = IF p.isCorrect THEN Max(@, stats.currentStreak + 1) ELSE @,
        !.totalAttempts = @ + 1,
        !.totalConfidence = @ + p.confidence,
        !.totalSimilarity = @ + p.similarity,
        !.timeSpent = @ + p.sessionTime]

\* the per-label part of update_progress; the running average
\* (old_avg*(n-1) + c)/n is kept as the exact sum it stands for
ApplyLabelAttempt(stats, p) ==
    IF p.targetLabel = None THEN stats
    ELSE LET lp == stats.labelProgress
             old == IF p.targetLabel \in DOMAIN lp THEN lp[p.targetLabel] ELSE NewLabelStats
             new == [attempts |-> old.attempts + 1,
                     successes |-> IF p.isCorrect THEN old.successes + 1 ELSE old.successes,
                     confidenceSum |-> old.confidenceSum + p.confidence]
         IN [stats EXCEPT !.labelProgress = (p.targetLabel :> new) @@ lp]

\* the entry update_progress works on: the one in the map when its body
\* runs, created on the spot if missing (atCall is the entry as it was when
\* the call was made, which the code never looks at again)
EntryAtCall(ss, k, atCall) == atCall

LiveEntry(ss, k, atCall) == IF k \in DOMAIN ss THEN ss[k] ELSE NewStats

\* session_stats after update_progress(model_id, user_id, progress_data)
UpdateProgressStats(ss, model_id, user_id, p, atCall) ==
    LET k == SessionKey(model_id, user_id)
        stats == LiveEntry(ss, k, atCall)
    IN (k :> ApplyLabelAttempt(ApplyAttempt(stats, p), p)) @@ ss

\* what get_session_stats(model_id, session_id) returns
GetSessionStats(ss, model_id, session_id) ==
    LET k == StatsCacheKey(model_id, session_id) IN
    IF k \notin DOMAIN ss THEN DefaultSessionStats
    ELSE LET stats == ss[k] IN
         [totalAttempts |-> stats.totalAttempts,
          correctAttempts |-> stats.correctAttempts,
          averageConfidence |-> stats.totalConfidence \div Max(stats.totalAttempts, 1),
          averageSimilarity |-> stats.totalSimilarity \div Max(stats.totalAttempts, 1),
          successRate |-> (stats.correctAttempts * 100) \div Max(stats.totalAttempts, 1),
          currentStreak |-> stats.currentStreak,
          bestStreak |-> stats.bestStreak,
          timeSpent |-> stats.timeSpent]

\* a quotient num/den kept exact
Quotient(num, den) == [num |-> num, den |-> den]

\* q >= k
AtLeast(q, k) == q.num >= k * q.den

AssessDifficultyAboveThresholds(success_rate, avg_confidence) ==
    IF ~AtLeast(success_rate, 81) \/ ~AtLeast(avg_confidence, 81)
    THEN IF ~AtLeast(success_rate, 61) \/ ~AtLeast(avg_confidence, 61)
         THEN IF ~AtLeast(success_rate, 41) THEN "very_hard" ELSE "hard"
         ELSE "medium"
    ELSE "easy"

\* _assess_difficulty; the rate is in percent, the confidence in hundredths
AssessDifficulty(success_rate, avg_confidence) ==
    IF AtLeast(success_rate, 80) /\ AtLeast(avg_confidence, 80) THEN "easy"
    ELSE IF AtLeast(success_rate, 60) /\ AtLeast(avg_confidence, 60) THEN "medium"
    ELSE IF AtLeast(success_rate, 40) THEN "hard"
    ELSE "very_hard"

\* the answer of get_label_performance for a label that has statistics
LabelPerformance(label, label_stats) ==
    LET success_rate == Quotient(label_stats.successes * 100, Max(label_stats.attempts, 1))
        avg_confidence == Quotient(label_stats.confidenceSum, Max(label_stats.attempts, 1))
    IN [label |-> label,
        attempts |-> label_stats.attempts,
        successes |-> label_stats.successes,
        successRate |-> success_rate,
        averageConfidence |-> avg_confidence,
        difficulty |-> AssessDifficulty(success_rate, avg_confidence)]

\* what get_label_performance(model_id, label, user_id) returns
GetLabelPerformance(ss, model_id, label, user_id) ==
    LET k == SessionKey(model_id, user_id) IN
    IF k \notin DOMAIN ss \/ label \notin DOMAIN ss[k].labelProgress
    THEN [label |-> label, attempts |-> 0, successes |-> 0,
          successRate |-> Quotient(0, 1), averageConfidence |-> Quotient(0, 1),
          difficulty |-> "unknown"]
    ELSE LabelPerformance(label, ss[k].labelProgress[label])

\* a mapping without one key (del d[k])
Without(d, k) == [x \in DOMAIN d \ {k} |-> d[x]]

\* reset_user_progress deletes session_stats[session_key] ...
ResetStats(ss, model_id, user_id) == Without(ss, SessionKey(model_id, user_id))

\* ... and comparison_cache[session_key], under the same key
ResetCache(cc, model_id, user_id) == Without(cc, SessionKey(model_id, user_id))

-----------------------------------------------------------------------------
(* LearningService: comparison against a target label *)

NoClearGesture == <<"No se detecta se", "n", "a clara">>
PoseNotDetected == <<"Mano no detectada correctamente">>
InvalidGesture == <<"Gesto no v", "a", "lido">>
ErrorPrediction == <<"Error">>

\* what MLService.predict hands back to compare_with_target for 21 landmarks
PredictOutcomes ==
    [raised : {FALSE}, prediction : {<<"A">>}, confidence : Confs]
      \cup [raised : {FALSE}, prediction : {NoClearGesture}, confidence : {40}]
      \cup [raised : {TRUE}, prediction : {ErrorPrediction}, confidence : {0}]

\* the landmark list as far as the comparison looks at it: its length, the
\* largest fingertip-to-wrist distance and whether every point has x, y and z
LandmarkInputs == {[count |-> 20, handSpan |-> 20, complete |-> TRUE],
                   [count |-> 21, handSpan |-> 20, complete |-> TRUE],
                   [count |-> 21, handSpan |-> 3, complete |-> TRUE],
                   [count |-> 21, handSpan |-> 20, complete |-> FALSE]}

EvaluateMatchAboveThreshold(prediction, target_label, confidence) ==
    IF prediction # target_label THEN FALSE ELSE confidence > 75

EvaluateMatch(prediction, target_label, confidence) ==
    IF prediction # target_label THEN FALSE ELSE confidence >= 75

GenerateAdvancedFeedback(prediction, target, confidence, is_match) ==
    IF is_match
    THEN IF confidence >= 95 THEN "perfecto"
         ELSE IF confidence >= 85 THEN "excelente"
         ELSE IF confidence >= 75 THEN "muy bien"
         ELSE "correcto"
    ELSE IF confidence < 30 THEN "no detectada claramente"
         ELSE IF prediction \in {NoClearGesture, PoseNotDetected} THEN "mano estable"
         ELSE IF prediction = InvalidGesture THEN "gesto mas claro"
         ELSE "detecte otra"

AssessDetectionQuality(landmarks, confidence) ==
    IF landmarks.count # 21 THEN "poor"
    ELSE IF ~landmarks.complete THEN "poor"
    ELSE IF landmarks.handSpan < 5 THEN "poor"
    ELSE IF landmarks.handSpan > 40 THEN "poor"
    ELSE IF confidence >= 80 THEN "excellent"
    ELSE IF confidence >= 60 THEN "good"
    ELSE "fair"

\* _calculate_similarity_score: the best similarity to the reference samples;
\* a list that is not 21 long or a point without a coordinate gives 0
CalculateSimilarityScore(landmarks, similarity) ==
    IF landmarks.count # 21 \/ ~landmarks.complete THEN 0 ELSE similarity

ErrorComparison ==
    [prediction |-> ErrorPrediction, confidence |-> 0, isMatch |-> FALSE,
     feedback |-> "error", similarity |-> 0, detectionQuality |-> "error"]

\* the ComparisonResult built from a prediction that did not raise
ComparisonResult(out, landmarks, target_label, similarity) ==
    LET is_match == EvaluateMatch(out.prediction, target_label, out.confidence) IN
    [prediction |-> out.prediction, confidence |-> out.confidence,
     isMatch |-> is_match,
     feedback |-> GenerateAdvancedFeedback(out.prediction, target_label, out.confidence, is_match),
     similarity |-> CalculateSimilarityScore(landmarks, similarity),
     detectionQuality |-> AssessDetectionQuality(landmarks, out.confidence)]

CacheLimit == 50

FirstN(s, n) == IF Len(s) <= n THEN s ELSE SubSeq(s, 1, n)

\* the last n elements of a list (s[-n:])
LastN(s, n) == IF Len(s) <= n THEN s ELSE SubSeq(s, Len(s) - n + 1, Len(s))

\* _update_session_cache; every entry also remembers the model and target
\* label of the call that recorded it
UpdateSessionCache(cc, model_id, target_label, result) ==
    LET cache_key == model_id \o <<"_">> \o target_label
        old == IF cache_key \in DOMAIN cc THEN cc[cache_key] ELSE <<>>
        entry == [result |-> result, model_id |-> model_id, target_label |-> target_label]
    IN (cache_key :> LastN(Append(old, entry), CacheLimit)) @@ cc

-----------------------------------------------------------------------------
(* MLService.predict: from the classifier's output to the result.          *)
(* Probabilities are whole numbers of ProbUnit-ths, entropies are in       *)
(* thousandths.                                                            *)

NoGesture == <<"NO_GESTURE">>

ProbUnit == 80

\* -p * ln(p) for p = k/ProbUnit + 1e-10, in thousandths, for the values of k
\* that occur in ProbVectors
EntropyTerm ==
    0 :> 0 @@ 1 :> 55 @@ 2 :> 92 @@ 4 :> 150 @@ 5 :> 173 @@ 8 :> 230 @@
    10 :> 260 @@ 12 :> 285 @@ 16 :> 322 @@
    20 :> 347 @@ 24 :> 361 @@ 28 :> 367 @@ 32 :> 367 @@ 36 :> 359 @@ 40 :> 347 @@
    44 :> 329 @@ 48 :> 306 @@ 52 :> 280 @@ 56 :> 250 @@ 60 :> 216 @@ 64 :> 179 @@
    68 :> 138 @@ 72 :> 95 @@ 76 :> 49 @@ 80 :> 0

RECURSIVE SumSeq(_)
SumSeq(q) == IF q = <<>> THEN 0 ELSE Head(q) + SumSeq(Tail(q))

\* np.max
MaxSeq(q) == CHOOSE x \in {q[i] : i \in 1..Len(q)} : \A i \in 1..Len(q) : q[i] <= x

\* np.argmax: the first index that holds the maximum
ArgMax(q) == CHOOSE i \in 1..Len(q) : q[i] = MaxSeq(q) /\ \A j \in 1..(i - 1) : q[j] < q[i]

\* _calculate_entropy_threshold
CalculateEntropyThreshold(probs) == SumSeq([i \in 1..Len(probs) |-> EntropyTerm[probs[i]]])

\* {label: prob for label, prob in zip(class_names, predictions[0])
\*  if label != "NO_GESTURE"}, every value over the denominator den
FilteredProbabilities(class_names, probs, den) ==
    LET kept == {i \in 1..Len(class_names) : class_names[i] # NoGesture} IN
    [label \in {class_names[i] : i \in kept} |->
        [num |-> probs[CHOOSE i \in kept : class_names[i] = label], den |-> den]]

\* the denominator of the probabilities of an accepted prediction
NormalizedDenominatorKeepUnit(total_prob) == ProbUnit

NormalizedDenominator(total_prob) == IF total_prob > 0 THEN total_prob ELSE ProbUnit

\* the rejection test of predict
RejectedUnlessSentinel(max_confidence, entropy, predicted_label) ==
    \/ 2 * max_confidence < ProbUnit
    \/ entropy > 2500

Rejected(max_confidence, entropy, predicted_label) ==
    \/ 2 * max_confidence < ProbUnit
    \/ entropy > 2500
    \/ predicted_label = NoGesture

\* the result predict builds from the classifier's output
Classify(class_names, probs) ==
    LET max_confidence == MaxSeq(probs)
        predicted_class == ArgMax(probs)
        predicted_label == class_names[predicted_class]
        kept == {i \in 1..Len(class_names) : class_names[i] # NoGesture}
        total_prob == SumSeq([i \in 1..Len(probs) |-> IF i \in kept THEN probs[i] ELSE 0])
    IN IF Rejected(max_confidence, CalculateEntropyThreshold(probs), predicted_label)
       THEN [prediction |-> NoClearGesture, confidence |-> max_confidence,
             probabilities |-> FilteredProbabilities(class_names, probs, ProbUnit)]
       ELSE [prediction |-> predicted_label, confidence |-> probs[predicted_class],
             probabilities |-> FilteredProbabilities(class_names, probs,
                                                     NormalizedDenominator(total_prob))]

\* label_encoder.classes_ of a model trained on the labels A and u: sorted,
\* with the negative class the training adds
ClassNames == << <<"A">>, NoGesture, <<"u">> >>

\* the classes of a model trained on n labels, the negative class last
ManyClassNames(n) == [i \in 1..(n + 1) |-> IF i = n + 1 THEN NoGesture ELSE <<"L", ToString(i)>>]

\* the numbers of classes, 6 or more, over which a uniform vector has
\* entries that are multiples of 1/ProbUnit
UniformClassCounts == {k \in 6..ProbUnit : ProbUnit % k = 0}

\* the perfectly uniform classifier outputs
UniformVectors ==
    {[class_names |-> ManyClassNames(k - 1), probs |-> [i \in 1..k |-> ProbUnit \div k]] :
        k \in UniformClassCounts}

\* classifier outputs: every vector over ClassNames in steps of 4/ProbUnit,
\* two vectors over many classes, one a little above and one a little
\* below the entropy limit, both with a real label at half or more, and the
\* uniform vectors
ProbVectors ==
    UniformVectors \cup
    {[class_names |-> ClassNames, probs |-> <<ab[1], ab[2], ProbUnit - ab[1] - ab[2]>>] :
        ab \in {x \in {4 * k : k \in 0..20} \X {4 * k : k \in 0..20} : x[1] + x[2] <= ProbUnit}}
    \cup {[class_names |-> ManyClassNames(40), probs |-> [i \in 1..41 |-> IF i = 1 THEN 40 ELSE 1]],
          [class_names |-> ManyClassNames(36), probs |-> [i \in 1..37 |-> IF i = 1 THEN 44 ELSE 1]]}

-----------------------------------------------------------------------------
(* MLService: the artifact on disk and the per-instance cache *)

Absent == 0          \* os.path.exists(...) is false
Corrupt == 0 - 1     \* a file left truncated by a write that failed
DefaultScaler == 0   \* _create_default_scaler(): fitted by no run

\* the long-lived MLService instance: the module-level ml_service of the
\* models routes.  Every other MLService() lives as long as the request or
\* the service object that built it.
Instances == {"routes"}

PersistSteps == {"h5", "scaler", "label_pkl", "label_json"}

NoDir == [dir |-> FALSE, h5 |-> Absent, scaler |-> Absent,
          label_pkl |-> Absent, label_json |-> Absent]

\* open(path, "wb") followed by a dump: the new content, or on failure the
\* old file (open failed) or a truncated one (dump failed)
WriteFile(old, run, failed, truncated) ==
    IF ~failed THEN run ELSE IF truncated THEN Corrupt ELSE old

\* the persistence part of train_model for run `run` on directory d;
\* fails is the set of steps that fail.  A failure to save the classifier or
\* the label JSON is re-raised, the other failures are only printed.
Persist(d, run, dataOk, fails, truncated) ==
    IF ~dataOk THEN [disk |-> d, raised |-> TRUE]
    ELSE IF "h5" \in fails THEN [disk |-> [d EXCEPT !.dir = TRUE], raised |-> TRUE]
    ELSE [disk |-> [dir |-> TRUE,
                    h5 |-> run,
                    scaler |-> WriteFile(d.scaler, run, "scaler" \in fails, truncated),
                    label_pkl |-> WriteFile(d.label_pkl, run, "label_pkl" \in fails, truncated),
                    label_json |-> WriteFile(d.label_json, run, "label_json" \in fails, truncated)],
          raised |-> "label_json" \in fails]

Readable(file) == file # Absent /\ file # Corrupt

\* the cache-miss branch of predict: classifier, label encoder (pickle
\* first, JSON as fallback) and scaler (default scaler as fallback)
\* the message of the exception the cache-miss branch raises
LoadErrorUnspecific(d) == "Failed to load model"

LoadError(d) ==
    IF ~d.dir THEN "Model directory not found"
    ELSE IF d.h5 = Absent THEN "Model file not found"
    ELSE IF d.label_json = Absent THEN "No label encoder found"
    ELSE "Failed to load label encoder"

LoadFromDisk(d) ==
    IF ~d.dir \/ d.h5 = Absent THEN [raised |-> TRUE, error |-> LoadError(d)]
    ELSE IF ~Readable(d.label_pkl) /\ ~Readable(d.label_json)
         THEN [raised |-> TRUE, error |-> LoadError(d)]
    ELSE [raised |-> FALSE,
          model |-> d.h5,
          encoder |-> IF Readable(d.label_pkl) THEN d.label_pkl ELSE d.label_json,
          scaler |-> IF Readable(d.scaler) THEN d.scaler ELSE DefaultScaler]

\* model_id in self.models and in self.label_encoders and in self.scalers
Cached(c, model_id) == model_id \in DOMAIN c

\* the components predict(model_id) works with on an instance whose cache is c
Components(c, d, model_id) ==
    IF Cached(c, model_id)
    THEN [raised |-> FALSE, model |-> c[model_id].model,
          encoder |-> c[model_id].encoder, scaler |-> c[model_id].scaler]
    ELSE LoadFromDisk(d)

CacheEntry(comp) == [model |-> comp.model, encoder |-> comp.encoder, scaler |-> comp.scaler]

\* what predict does with the landmark list once the components are there:
\* a list that is not 21 long, a hand the pose check refuses, or a good list
LandmarkKinds == {"ok", "count", "pose"}

\* lists of 21 points on which a later step fails: a coordinate float()
\* refuses (feature extraction), an infinite coordinate (scaler.transform
\* refuses it), a list on which the classifier raises
StepFailureKinds == {"not_numeric", "infinite", "classifier"}

\* the steps whose exception predict re-raises
RaisingKinds == {"count", "not_numeric", "classifier"}

PredictOutcome(comp, lm) ==
    IF comp.raised \/ lm \in RaisingKinds THEN "raise"
    ELSE IF lm = "pose" THEN "pose_not_detected"
    ELSE "ok"

\* the message of the exception predict raises, after "Error making prediction: "
PredictError(comp, lm) ==
    IF comp.raised THEN comp.error
    ELSE IF lm = "count" THEN "Expected 21 landmarks"
    ELSE IF lm = "not_numeric" THEN "Feature extraction failed"
    ELSE "Model prediction failed"

\* the record of a predict call: its arguments, whether the model file was
\* on disk, the outcome, and the components it ran with; lastRun is the most
\* recent run of the model when the call was made, if that run has returned
\* (0 otherwise); scaled tells whether the classifier got transformed features
UsedRecord(inst, model_id, d, comp, lm, lastRun) ==
    IF PredictOutcome(comp, lm) = "ok"
    THEN [outcome |-> "ok", inst |-> inst, model_id |-> model_id, lm |-> lm,
          onDisk |-> d.dir /\ d.h5 # Absent, lastRun |-> lastRun,
          model |-> comp.model, encoder |-> comp.encoder, scaler |-> comp.scaler,
          scaled |-> lm # "infinite"]
    ELSE IF PredictOutcome(comp, lm) = "raise"
    THEN [outcome |-> "raise", inst |-> inst, model_id |-> model_id, lm |-> lm,
          onDisk |-> d.dir /\ d.h5 # Absent, error |-> PredictError(comp, lm)]
    ELSE [outcome |-> PredictOutcome(comp, lm), inst |-> inst, model_id |-> model_id,
          lm |-> lm, onDisk |-> d.dir /\ d.h5 # Absent]

\* the most recent run started for a model, if it has returned
LastRun(model_id) ==
    IF \A r \in 1..Len(runModel) : runModel[r] = model_id => r <= latest[model_id]
    THEN latest[model_id] ELSE 0

\* train_model on instance inst
TrainModel(inst, model_id, dataOk, fails, truncated) ==
    /\ nextRun < MaxRuns
    /\ nextRun' = nextRun + 1
    /\ runModel' = Append(runModel, model_id)
    /\ LET run == nextRun + 1
           res == Persist(disk[model_id], run, dataOk, fails, truncated)
       IN /\ disk' = [disk EXCEPT ![model_id] = res.disk]
          /\ IF res.raised
             THEN UNCHANGED <<cache, latest>>
             ELSE /\ cache' = [cache EXCEPT ![inst] =
                        (model_id :> [model |-> run, encoder |-> run, scaler |-> run]) @@ @]
                  /\ latest' = [latest EXCEPT ![model_id] = run]
    /\ UNCHANGED <<applied, used, learnVars, dbVars, jobVars>>

\* train_model on an MLService() built for the occasion (TrainingService,
\* LearningService): what it caches goes away with it
TrainModelOnNewInstance(model_id, dataOk, fails, truncated) ==
    /\ nextRun < MaxRuns
    /\ nextRun' = nextRun + 1
    /\ runModel' = Append(runModel, model_id)
    /\ LET run == nextRun + 1
           res == Persist(disk[model_id], run, dataOk, fails, truncated)
       IN /\ disk' = [disk EXCEPT ![model_id] = res.disk]
          /\ latest' = IF res.raised THEN latest ELSE [latest EXCEPT ![model_id] = run]
    /\ UNCHANGED <<applied, cache, used, learnVars, dbVars, jobVars>>

\* predict on a long-lived instance
Predict(inst, model_id, lm) ==
    LET comp == Components(cache[inst], disk[model_id], model_id) IN
    /\ cache' = IF comp.raised THEN cache
                ELSE [cache EXCEPT ![inst] = (model_id :> CacheEntry(comp)) @@ @]
    /\ used' = UsedRecord(inst, model_id, disk[model_id], comp, lm, LastRun(model_id))
    /\ UNCHANGED <<applied, disk, nextRun, latest, runModel, learnVars, dbVars, jobVars>>

\* predict on the MLService() a request builds for itself (detection and
\* learning routes): its cache is empty and is dropped with it
PredictOnNewInstance(model_id, lm) ==
    LET comp == Components(<<>>, disk[model_id], model_id) IN
    /\ used' = UsedRecord("request", model_id, disk[model_id], comp, lm, LastRun(model_id))
    /\ UNCHANGED <<applied, disk, cache, nextRun, latest, runModel, learnVars, dbVars, jobVars>>


-----------------------------------------------------------------------------
(* Operations on the long-lived LearningService instance *)

NoCalls == [c \in 1..NumCalls |-> [pc |-> "idle"]]

-----------------------------------------------------------------------------
(* MLService.train_model on the samples it is given *)

\* a training sample is its label and what its landmark list is like: 21
\* points with x, y and z ("ok"), a list that is not 21 long ("count"), a
\* point without x, y or z ("missing_key"), or 21 complete points with a
\* coordinate on which feature extraction raises ("not_numeric")
SampleKinds == {"ok", "count", "missing_key", "not_numeric"}

Sample(label, landmarks) == [label |-> label, landmarks |-> landmarks]

\* _prepare_training_data: the labels y of the samples kept (X has one row
\* of features per kept sample); a sample whose extraction raises is skipped
RECURSIVE PrepareTrainingData(_)
PrepareTrainingData(training_data) ==
    IF training_data = <<>> THEN <<>>
    ELSE LET sample == Head(training_data)
             rest == PrepareTrainingData(Tail(training_data))
         IN IF sample.landmarks = "ok" THEN <<sample.label>> \o rest ELSE rest

\* set(y)
SetOf(y) == {y[i] : i \in 1..Len(y)}

CountOf(y, label) == Cardinality({i \in 1..Len(y) : y[i] = label})

DataErrorNoClassCheck(training_data) ==
    LET y == PrepareTrainingData(training_data) IN
    IF training_data = <<>> THEN "No training data provided"
    ELSE IF Len(y) = 0 THEN "No valid training samples after processing"
    ELSE "none"

\* the checks of train_model on what it was given and on what is left of it
DataError(training_data) ==
    LET y == PrepareTrainingData(training_data) IN
    IF training_data = <<>> THEN "No training data provided"
    ELSE IF Len(y) = 0 THEN "No valid training samples after processing"
    ELSE IF Cardinality(SetOf(y)) < 2 THEN "Need at least 2 different classes"
    ELSE "none"

\* _generate_negative_samples(X, len(X) // 3): one NO_GESTURE row per three samples
NegativeCount(y) == Len(y) \div 3

\* len(X_combined)
CombinedCount(y) == Len(y) + NegativeCount(y)

\* the 80/20 split is made when there are more than 10 combined rows
SplitIsMade(y) == CombinedCount(y) > 10

\* ceil(0.2 * n), the size of the test part
TestSize(n) == (n + 4) \div 5

\* the steps between the data checks and the fit that raise: np.vstack
\* refuses the empty array of negative samples, and the stratified split
\* refuses a class with a single member
FitError(y) ==
    IF NegativeCount(y) = 0 THEN "vstack"
    ELSE IF SplitIsMade(y) /\ \E label \in SetOf(y) : CountOf(y, label) < 2
         THEN "train_test_split"
    ELSE "none"

\* the metrics of a run: _calculate_metrics on the test part when the split
\* was made (its fallback on an exception has the same totalSamples), the
\* last training accuracy and the training rows otherwise
TrainMetrics(y, accuracy) ==
    [accuracy |-> accuracy,
     totalSamples |-> IF SplitIsMade(y) THEN TestSize(CombinedCount(y))
                      ELSE CombinedCount(y)]

\* set([sample["label"] for sample in training_data]): invalid samples count
LabelSet(training_data) == {training_data[i].label : i \in 1..Len(training_data)}

\* list(set(...)): the labels in one of the orders a set can be listed in
Orderings(S) ==
    {q \in [1..Cardinality(S) -> S] : \A i, j \in 1..Cardinality(S) : i # j => q[i] # q[j]}

\* the labels that occur, in the order in which strings sort
LabelOrder == << <<"A">>, <<"B">>, NoGesture, <<"u">> >>

\* LabelEncoder.fit: classes_ is the sorted list of the distinct values
SortedClasses(S) == SelectSeq(LabelOrder, LAMBDA label : label \in S)

\* what a run writes to label_encoder.json, and the number of output units
\* of the classifier it saved: classes are those of the encoder fitted on
\* the valid samples and the negative ones, labels are all labels of the
\* request with the sentinel appended
LabelData(labels, y) ==
    [classes |-> SortedClasses(SetOf(y) \cup {NoGesture}),
     labels |-> labels \o <<NoGesture>>,
     original_labels |-> labels,
     units |-> Len(labels) + 1]

\* train_model(model_id, training_data) on instance inst; labels is the
\* list the label set is turned into
TrainModelOnData(inst, model_id, training_data, labels, fails, accuracy) ==
    /\ nextRun < MaxRuns
    /\ nextRun' = nextRun + 1
    /\ runModel' = Append(runModel, model_id)
    /\ \E y \in {PrepareTrainingData(training_data)} :
       \E error \in {IF DataError(training_data) # "none" THEN DataError(training_data)
                      ELSE FitError(y)} :
       \E res \in {Persist(disk[model_id], nextRun + 1, error = "none", fails, FALSE)} :
          /\ disk' = [disk EXCEPT ![model_id] = res.disk]
          /\ IF res.raised
             THEN UNCHANGED <<cache, latest>>
             ELSE /\ cache' = [cache EXCEPT ![inst] =
                        (model_id :> [model |-> nextRun + 1, encoder |-> nextRun + 1,
                                      scaler |-> nextRun + 1]) @@ @]
                  /\ latest' = [latest EXCEPT ![model_id] = nextRun + 1]
          /\ applied' = [fn |-> "train_model",
                         args |-> [model_id |-> model_id, training_data |-> training_data],
                         value |-> IF res.raised
                                   THEN [raised |-> TRUE,
                                         error |-> IF error # "none" THEN error ELSE "save"]
                                   ELSE [raised |-> FALSE,
                                         metrics |-> TrainMetrics(y, accuracy),
                                         label_data |-> LabelData(labels, y)]]
    /\ UNCHANGED <<used, learnVars, dbVars, jobVars>>

RECURSIVE Repeat(_, _)
Repeat(sample, n) == IF n = 0 THEN <<>> ELSE <<sample>> \o Repeat(sample, n - 1)

\* what follows the good samples of a request
InvalidTails ==
    {<<>>} \cup {<<Sample(<<"B">>, k)>> : k \in SampleKinds \ {"ok"}}

\* a good samples of one label and b of the other: none, one or as many
SampleCounts ==
    {c \in (0..MaxPerLabel) \X (0..MaxPerLabel) : c[2] \in {0, 1, c[1]}}

TrainingInputs ==
    {Repeat(Sample(<<"A">>, "ok"), c[1]) \o Repeat(Sample(<<"u">>, "ok"), c[2]) \o tail :
        c \in SampleCounts, tail \in InvalidTails}

\* accuracies, in hundredths
Accuracies == {0, 100}

-----------------------------------------------------------------------------
(* MLService._extract_features_fixed.  Coordinates are integers of a grid;  *)
(* lengths are integer square roots and angles whole degrees.               *)

\* lm.get(key, 0)
Get(lm, key) == IF key \in DOMAIN lm THEN lm[key] ELSE 0

\* coords: one (x, y, z) per landmark
Coords(landmarks) ==
    [i \in 1..Len(landmarks) |->
        <<Get(landmarks[i], "x"), Get(landmarks[i], "y"), Get(landmarks[i], "z")>>]

\* the largest squared length that occurs
MaxSquare == 300

\* the floors of the square roots
SquareRootTable ==
    [n \in 0..MaxSquare |-> CHOOSE r \in 0..n : r * r <= n /\ (r + 1) * (r + 1) > n]

\* floor of the square root
Isqrt(n) == SquareRootTable[n]

Dot(v, w) == v[1] * w[1] + v[2] * w[2] + v[3] * w[3]

Minus(p, q) == <<p[1] - q[1], p[2] - q[2], p[3] - q[3]>>

\* np.sqrt of the sum of the squared differences
Distance(p, q) == Isqrt(Dot(Minus(p, q), Minus(p, q)))

\* np.clip(value, lo, hi)
Clip(value, lo, hi) == IF value < lo THEN lo ELSE IF value > hi THEN hi ELSE value

\* np.arccos, in degrees, of a cosine given in tenths
Arccos ==
    [c \in (0 - 10)..10 |->
        <<180, 154, 143, 134, 127, 120, 114, 107, 102, 96, 90,
          84, 78, 73, 66, 60, 53, 46, 37, 26, 0>>[c + 11]]

\* the angle at p2 between p1 and p3; with a zero vector the quotient is
\* 0 / 1e-6 and the angle a right one
Angle(p1, p2, p3) ==
    LET v1 == Minus(p1, p2)
        v2 == Minus(p3, p2)
        norms == Isqrt(Dot(v1, v1)) * Isqrt(Dot(v2, v2))
        cos_angle == IF norms = 0 THEN 0 ELSE (10 * Dot(v1, v2)) \div norms
    IN Arccos[Clip(cos_angle, 0 - 10, 10)]

\* landmark indices as the code has them, counted from 0
finger_tips == <<4, 8, 12, 16, 20>>
finger_bases == <<3, 6, 10, 14, 18>>
finger_chains == <<<<1, 2, 3, 4>>, <<5, 6, 7, 8>>, <<9, 10, 11, 12>>,
                   <<13, 14, 15, 16>>, <<17, 18, 19, 20>>>>

\* the three groups of features before padding and truncation: positions
\* relative to the wrist, tip-to-base and tip-to-wrist distances, and two
\* angles per finger
WristRelative(coords) ==
    [k \in 1..(3 * Len(coords)) |->
        coords[((k - 1) \div 3) + 1][((k - 1) % 3) + 1] - coords[1][((k - 1) % 3) + 1]]

TipDistances(coords) ==
    [k \in 1..5 |-> Distance(coords[finger_tips[k] + 1], coords[finger_bases[k] + 1])]
      \o [k \in 1..5 |-> Distance(coords[finger_tips[k] + 1], coords[1])]

ChainAngles(coords) ==
    [k \in 1..10 |->
        LET chain == finger_chains[((k - 1) \div 2) + 1]
            i == (k - 1) % 2
        IN Angle(coords[chain[i + 1] + 1], coords[chain[i + 2] + 1], coords[chain[i + 3] + 1])]

\* while len(features) < 78: features.append(0.0)
PadTo(features, n) ==
    features \o [k \in 1..(IF Len(features) < n THEN n - Len(features) ELSE 0) |-> 0]

ExtractFeaturesUntruncated(landmarks) ==
    IF Len(landmarks) # 21
    THEN [raised |-> TRUE, error |-> "Expected 21 landmarks"]
    ELSE LET coords == Coords(landmarks) IN
         [raised |-> FALSE,
          features |-> PadTo(WristRelative(coords) \o TipDistances(coords)
                                \o ChainAngles(coords), 78)]

\* _extract_features_fixed(landmarks)
ExtractFeaturesFixed(landmarks) ==
    IF Len(landmarks) # 21
    THEN [raised |-> TRUE, error |-> "Expected 21 landmarks"]
    ELSE LET coords == Coords(landmarks)
             features == PadTo(WristRelative(coords) \o TipDistances(coords)
                                  \o ChainAngles(coords), 78)
         IN [raised |-> FALSE, features |-> SubSeq(features, 1, 78)]

\* a landmark list of n points spread over the grid by the strides a, b, c;
\* with partial set, every third point comes without its z
RECURSIVE Hand(_, _, _, _, _)
Hand(n, a, b, c, partial) ==
    IF n = 0 THEN <<>>
    ELSE Append(Hand(n - 1, a, b, c, partial),
                IF partial /\ n % 3 = 0
                THEN [x |-> (a * n) % 5, y |-> (b * n * n) % 4]
                ELSE [x |-> (a * n) % 5, y |-> (b * n * n) % 4, z |-> (c + n) % 3])

HandLengths == {0, 20, 21, 22}

HandInputs ==
    {Hand(n, a, b, c, partial) :
        n \in HandLengths, a \in 0..4, b \in 0..3, c \in 0..1, partial \in BOOLEAN}

-----------------------------------------------------------------------------
(* LearningService: the reference shown for each label of a model.  A grid  *)
(* step is 0.01, so a fingertip counts when its squared distance to the     *)
(* wrist is strictly between 10 * 10 and 40 * 40.                           *)

\* the loop over the five fingertips from the k-th on: 10 for a tip whose
\* distance to the wrist is inside (0.1, 0.4); a point without x or y
\* raises, and the handler takes 20 from the score reached so far
RECURSIVE FingertipScore(_, _, _)
FingertipScore(landmarks, k, score) ==
    IF k > 5 THEN score
    ELSE LET wrist == landmarks[1]
             tip == landmarks[finger_tips[k] + 1]
         IN IF ~({"x", "y"} \subseteq DOMAIN tip) \/ ~({"x", "y"} \subseteq DOMAIN wrist)
            THEN score - 20
            ELSE LET square == (tip.x - wrist.x) * (tip.x - wrist.x)
                                 + (tip.y - wrist.y) * (tip.y - wrist.y)
                 IN FingertipScore(landmarks, k + 1,
                                   IF 100 < square /\ square < 1600 THEN score + 10 ELSE score)

\* _calculate_reference_quality_score(sample); created_at is 0 for None
CalculateReferenceQualityScore(sample) ==
    (IF sample.landmarks = <<>> THEN 0
     ELSE IF Len(sample.landmarks) # 21 THEN 0
     ELSE FingertipScore(sample.landmarks, 1, 50))
    + (IF sample.created_at # 0 THEN 5 ELSE 0)

SelectLastBestSample(samples) ==
    IF Len(samples) = 1 THEN samples[1]
    ELSE samples[CHOOSE i \in 1..Len(samples) :
            /\ \A j \in 1..Len(samples) :
                   CalculateReferenceQualityScore(samples[j])
                       <= CalculateReferenceQualityScore(samples[i])
            /\ \A j \in (i + 1)..Len(samples) :
                   CalculateReferenceQualityScore(samples[j])
                       < CalculateReferenceQualityScore(samples[i])]

\* _select_best_reference_sample(samples): the head of the list after the
\* stable sort by descending score, which is the first sample that no other
\* sample outscores
SelectBestReferenceSample(samples) ==
    IF Len(samples) = 1 THEN samples[1]
    ELSE samples[CHOOSE i \in 1..Len(samples) :
            /\ \A j \in 1..Len(samples) :
                   CalculateReferenceQualityScore(samples[j])
                       <= CalculateReferenceQualityScore(samples[i])
            /\ \A j \in 1..(i - 1) :
                   CalculateReferenceQualityScore(samples[j])
                       < CalculateReferenceQualityScore(samples[i])]

\* get_reference_images(model_id) on the Dataset table: the rows of the
\* model grouped by label, the best sample of each group, and the entries
\* sorted by label
GetReferenceImages(dataset, model_id) ==
    LET datasets == SelectSeq(dataset, LAMBDA row : row.model_id = model_id)
        labels == SortedClasses({datasets[i].label : i \in 1..Len(datasets)})
    IN [k \in 1..Len(labels) |->
           LET samples == SelectSeq(datasets, LAMBDA row : row.label = labels[k])
               best_sample == SelectBestReferenceSample(samples)
           IN [label |-> labels[k],
               referenceImage |-> best_sample.image_data,
               totalSamples |-> Len(samples),
               landmarks |-> best_sample.landmarks,
               created |-> best_sample.created_at]]

\* the most rows in a Dataset table of references
MaxRows == 3

\* a hand with the wrist at the origin and the first n fingertips 0.2 away
\* from it, one fingertip exactly 0.1 away and the rest on the wrist; with
\* broken set, the middle fingertip comes without its x
SpreadHand(n, broken) ==
    [i \in 1..21 |->
        IF broken /\ i = finger_tips[3] + 1 THEN [y |-> 0, z |-> 0]
        ELSE IF \E k \in 1..n : i = finger_tips[k] + 1 THEN [x |-> 20, y |-> 0, z |-> 0]
        ELSE IF i = finger_tips[5] + 1 THEN [x |-> 10, y |-> 0, z |-> 0]
        ELSE [x |-> 0, y |-> 0, z |-> 0]]

\* the samples stored under a label, each with its landmarks and creation
\* time: closed hands, hands with two fingers spread, hands with a broken
\* point, one of 20 points and one without landmarks
SampleQualities ==
    [A |-> {<<SpreadHand(0, FALSE), 0>>, <<SpreadHand(0, FALSE), 1>>,
            <<SpreadHand(2, FALSE), 0>>, <<SpreadHand(2, TRUE), 1>>, <<(<<>>), 0>>},
     u |-> {<<SpreadHand(0, FALSE), 0>>, <<SpreadHand(4, TRUE), 0>>,
            <<SpreadHand(2, FALSE), 1>>, <<Hand(20, 1, 1, 0, FALSE), 1>>}]

ReferenceRow(model_id, label, quality) ==
    [model_id |-> model_id, label |-> label, landmarks |-> quality[1],
     created_at |-> quality[2], image_data |-> 0]

ReferenceRows ==
    {ReferenceRow(<<"m">>, <<"A">>, quality) : quality \in SampleQualities.A}
        \cup {ReferenceRow(<<"m">>, <<"u">>, quality) : quality \in SampleQualities.u}
        \cup {ReferenceRow(<<"m", "_", "u">>, <<"B">>, <<SpreadHand(2, FALSE), 1>>)}

\* Dataset tables of at most MaxRows rows, each row with its own image
ReferenceTables ==
    UNION {{[i \in 1..n |-> [rows[i] EXCEPT !.image_data = i]] :
               rows \in [1..n -> ReferenceRows]} : n \in 0..MaxRows}

-----------------------------------------------------------------------------
(* LearningService: similarity to the stored samples of a label.  A grid    *)
(* step is 0.01 and a similarity is in thousandths.                         *)

HasXYZ(lm) == {"x", "y", "z"} \subseteq DOMAIN lm

\* sum(distances) over the 21 points
RECURSIVE SumDistances(_, _, _)
SumDistances(landmarks1, landmarks2, i) ==
    IF i = 0 THEN 0
    ELSE Distance(<<landmarks1[i].x, landmarks1[i].y, landmarks1[i].z>>,
                  <<landmarks2[i].x, landmarks2[i].y, landmarks2[i].z>>)
           + SumDistances(landmarks1, landmarks2, i - 1)

\* _compute_landmark_similarity: 0.0 for a list that is not 21 long and for
\* a point without x, y or z (the KeyError is caught), and otherwise
\* min(1.0, max(0.0, 1.0 - avg_distance * 10))
ComputeLandmarkSimilarity(landmarks1, landmarks2) ==
    IF Len(landmarks1) # 21 \/ Len(landmarks2) # 21 THEN 0
    ELSE IF \E i \in 1..21 : ~HasXYZ(landmarks1[i]) \/ ~HasXYZ(landmarks2[i]) THEN 0
    ELSE Min(1000, Max(0, 1000 - (100 * SumDistances(landmarks1, landmarks2, 21)) \div 21))

LastSimilarity(user_landmarks, reference_samples) ==
    IF reference_samples = <<>> THEN 0
    ELSE ComputeLandmarkSimilarity(user_landmarks,
                                   reference_samples[Len(reference_samples)].landmarks)

\* the loop of _calculate_similarity_score over the rows the query gave:
\* the largest similarity, starting from max_similarity = 0.0
MaxSimilarity(user_landmarks, reference_samples) ==
    LET similarities ==
            {0} \cup {ComputeLandmarkSimilarity(user_landmarks, ref_landmarks) :
                         ref_landmarks \in {reference_samples[i].landmarks :
                                               i \in 1..Len(reference_samples)}}
    IN CHOOSE best \in similarities : \A x \in similarities : x <= best

\* filter(Dataset.model_id == model_id, Dataset.label == label): the rows
\* that match, in the order of the table
RECURSIVE MatchingRows(_, _, _)
MatchingRows(rows, model_id, label) ==
    IF rows = <<>> THEN <<>>
    ELSE IF Head(rows).model_id = model_id /\ Head(rows).label = label
    THEN <<Head(rows)>> \o MatchingRows(Tail(rows), model_id, label)
    ELSE MatchingRows(Tail(rows), model_id, label)

\* the rows at the positions picked, in the order of the table
RECURSIVE RowsAt(_, _, _)
RowsAt(rows, picked, i) ==
    IF i > Len(rows) THEN <<>>
    ELSE IF i \in picked THEN <<rows[i]>> \o RowsAt(rows, picked, i + 1)
    ELSE RowsAt(rows, picked, i + 1)

\* what .limit(n) may keep of the rows that match: the query has no ORDER
\* BY, so any n of them
LimitChoices(matching, n) ==
    {picked \in SUBSET (1..Len(matching)) : Cardinality(picked) = Min(n, Len(matching))}

\* _calculate_similarity_score on the Dataset table, picked being the rows
\* of the label that the query returns; a query that fails gives 0.0
CalculateSimilarityFromDataset(dataset, user_landmarks, target_label, model_id, picked, query_fails) ==
    LET reference_samples == RowsAt(MatchingRows(dataset, model_id, target_label), picked, 1)
    IN IF query_fails THEN 0 ELSE MaxSimilarity(user_landmarks, reference_samples)

\* a landmark list moved by dx grid steps along x
RECURSIVE Shifted(_, _)
Shifted(landmarks, dx) ==
    IF landmarks = <<>> THEN <<>>
    ELSE <<IF "x" \in DOMAIN Head(landmarks) THEN [Head(landmarks) EXCEPT !.x = @ + dx]
           ELSE Head(landmarks)>> \o Shifted(Tail(landmarks), dx)

\* the hand that is shown and its variants among the stored samples
ShownHand == Hand(21, 1, 1, 0, FALSE)

DatasetRow(model_id, label, landmarks) ==
    [model_id |-> model_id, label |-> label, landmarks |-> landmarks]

\* a sample of the label that is far from the shown hand
FarRow == DatasetRow(<<"m">>, <<"A">>, Shifted(ShownHand, 11))

\* the stored samples that are not far ones: the shown hand itself, a near
\* one, one without z values, one of 20 points, and the shown hand under
\* another label and under another model
SpecialRows ==
    {DatasetRow(<<"m">>, <<"A">>, ShownHand),
     DatasetRow(<<"m">>, <<"A">>, Shifted(ShownHand, 2)),
     DatasetRow(<<"m">>, <<"A">>, Hand(21, 1, 1, 0, TRUE)),
     DatasetRow(<<"m">>, <<"A">>, Hand(20, 1, 1, 0, FALSE)),
     DatasetRow(<<"m">>, <<"u">>, ShownHand),
     DatasetRow(<<"m", "_", "u">>, <<"A">>, ShownHand)}

\* Dataset tables: empty, one special row, or MaxRefs rows that are far
\* samples but for a special row among the first three or at the end
DatasetInputs ==
    {<<>>} \cup
    {Repeat(FarRow, n[2] - 1) \o <<special>> \o Repeat(FarRow, n[1] - n[2]) :
        n \in {<<1, 1>>} \cup ({MaxRefs} \X {1, 2, 3, MaxRefs}), special \in SpecialRows}

\* the hands shown: a complete one and one without z values
UserHands == {ShownHand, Hand(21, 1, 1, 0, TRUE)}

\* the calls looked at: the shown hand on every table with every choice of
\* rows the query can return, and a hand without z values or a failing
\* query on the tables of at most one row
SimilarityInputs ==
    {in \in [dataset : DatasetInputs, user_landmarks : UserHands,
             picked : SUBSET (1..MaxRefs), query_fails : BOOLEAN] :
        /\ in.picked \in LimitChoices(MatchingRows(in.dataset, <<"m">>, <<"A">>), 5)
        /\ (in.user_landmarks # ShownHand \/ in.query_fails) => Len(in.dataset) <= 1}

InitML ==
    /\ disk = [m \in ModelIds |-> NoDir]
    /\ cache = [i \in Instances |-> <<>>]
    /\ used = [outcome |-> "none"]
    /\ nextRun = 0
    /\ latest = [m \in ModelIds |-> 0]
    /\ runModel = <<>>

InitDb ==
    /\ dbModels = [m \in ModelIds |-> "none"]
    /\ dbSessions = [m \in ModelIds |-> "none"]
    /\ bg = [m \in ModelIds |-> "none"]
    /\ bgFails = [m \in ModelIds |-> {}]

InitJobs ==
    /\ training_jobs = <<>>
    /\ poll = [op |-> "none"]

InitLearn ==
    /\ session_stats = <<>>
    /\ comparison_cache = <<>>
    /\ hist = <<>>
    /\ ret = [op |-> "none"]
    /\ nUpdates = 0
    /\ nCompares = 0
    /\ calls = NoCalls

UpdateProgress(model_id, user_id, p) ==
    /\ nUpdates < MaxUpdates
    /\ calls = NoCalls
    /\ nUpdates' = nUpdates + 1
    /\ session_stats' = UpdateProgressStats(session_stats, model_id, user_id, p,
            LiveEntry(session_stats, SessionKey(model_id, user_id), NewStats))
    /\ LET k == SessionKey(model_id, user_id)
           old == IF k \in DOMAIN hist THEN hist[k] ELSE <<>>
       IN hist' = (k :> Append(old, p.isCorrect)) @@ hist
    /\ ret' = [op |-> "update_progress", model_id |-> model_id, user_id |-> user_id,
               result |-> GetSessionStats(session_stats', model_id, user_id)]
    /\ UNCHANGED <<applied, comparison_cache, nCompares, calls, mlVars, dbVars, jobVars>>

GetSessionStatsCall(model_id, session_id) ==
    /\ ret' = [op |-> "get_session_stats", model_id |-> model_id, user_id |-> session_id,
               result |-> GetSessionStats(session_stats, model_id, session_id)]
    /\ UNCHANGED <<applied, session_stats, comparison_cache, hist, nUpdates, nCompares, calls, mlVars, dbVars, jobVars>>

ResetUserProgress(model_id, user_id) ==
    /\ session_stats' = ResetStats(session_stats, model_id, user_id)
    /\ comparison_cache' = ResetCache(comparison_cache, model_id, user_id)
    /\ hist' = Without(hist, SessionKey(model_id, user_id))
    /\ ret' = [op |-> "reset_user_progress", model_id |-> model_id, user_id |-> user_id,
               result |-> [returned |-> TRUE]]
    /\ UNCHANGED <<applied, nUpdates, nCompares, calls, mlVars, dbVars, jobVars>>

\* compare_with_target, for as long as fewer than limit calls were made
CompareWithTargetWithin(limit, model_id, landmarks, target_label, out, similarity) ==
    /\ nCompares < limit
    /\ nCompares' = nCompares + 1
    /\ landmarks.count # 21 => out.raised
    /\ IF out.raised
       THEN /\ ret' = [op |-> "compare_with_target", model_id |-> model_id,
                       user_id |-> None, result |-> ErrorComparison,
                       landmarks |-> landmarks, target_label |-> target_label,
                       raised |-> TRUE]
            /\ UNCHANGED comparison_cache
       ELSE LET result == ComparisonResult(out, landmarks, target_label, similarity) IN
            /\ comparison_cache' = UpdateSessionCache(comparison_cache, model_id, target_label, result)
            /\ ret' = [op |-> "compare_with_target", model_id |-> model_id,
                       user_id |-> None, result |-> result,
                       landmarks |-> landmarks, target_label |-> target_label,
                       raised |-> FALSE]
    /\ UNCHANGED <<session_stats, hist, nUpdates, calls, mlVars, dbVars, jobVars>>

CompareWithTarget(model_id, landmarks, target_label, out, similarity) ==
    /\ CompareWithTargetWithin(MaxCompares, model_id, landmarks, target_label, out, similarity)
    /\ UNCHANGED applied

-----------------------------------------------------------------------------
(* The learning routes: every request builds its own LearningService *)

\* GET /{model_id}/stats
RouteGetLearningStats(model_id, session_id) ==
    /\ ret' = [op |-> "route_stats", model_id |-> model_id, user_id |-> session_id,
               result |-> GetSessionStats(<<>>, model_id, session_id)]
    /\ UNCHANGED <<applied, session_stats, comparison_cache, hist, nUpdates, nCompares, calls, mlVars, dbVars, jobVars>>

\* POST /{model_id}/progress: the request body is handed over as the schema
\* object, which has no get(); the entry is created in the request's own
\* instance and the call then raises
RouteUpdateLearningProgress(model_id, user_id, p) ==
    /\ ret' = [op |-> "route_progress", model_id |-> model_id, user_id |-> user_id,
               result |-> [status_code |-> 500]]
    /\ UNCHANGED <<applied, session_stats, comparison_cache, hist, nUpdates, nCompares, calls, mlVars, dbVars, jobVars>>

\* DELETE /{model_id}/reset
RouteResetLearningProgress(model_id, user_id) ==
    /\ ret' = [op |-> "route_reset", model_id |-> model_id, user_id |-> user_id,
               result |-> [returned |-> (ResetStats(<<>>, model_id, user_id) = <<>>)]]
    /\ UNCHANGED <<applied, session_stats, comparison_cache, hist, nUpdates, nCompares, calls, mlVars, dbVars, jobVars>>

Next ==
    \/ \E m \in ModelIds, u \in UserIds, p \in ProgressInputs : UpdateProgress(m, u, p)
    \/ \E m \in ModelIds, s \in UserIds \cup {None} : GetSessionStatsCall(m, s)
    \/ \E m \in ModelIds, u \in UserIds : ResetUserProgress(m, u)
    \/ \E m \in ModelIds, s \in UserIds \cup {None} : RouteGetLearningStats(m, s)
    \/ \E m \in ModelIds, u \in UserIds, p \in ProgressInputs : RouteUpdateLearningProgress(m, u, p)
    \/ \E m \in ModelIds, u \in UserIds : RouteResetLearningProgress(m, u)

InitApplied == applied = [fn |-> "none"]

Init == InitLearn /\ InitML /\ InitDb /\ InitJobs /\ InitApplied

Spec == Init /\ [][Next]_vars

\* practice sessions: comparisons, progress reports and resets on one instance
NextCompare ==
    \/ \E m \in ModelIds, lm \in LandmarkInputs, t \in Labels,
          out \in PredictOutcomes, sim \in {80} : CompareWithTarget(m, lm, t, out, sim)
    \/ \E m \in ModelIds, u \in UserIds, p \in MatchedInputs : UpdateProgress(m, u, p)
    \/ \E m \in ModelIds, u \in UserIds : ResetUserProgress(m, u)

SpecCompare == Init /\ [][NextCompare]_vars

\* confidences around the match threshold
MatchConfs == {0, 50, 74, 75, 76, 90, 100}

\* what predict hands back while the match decision is looked at: a label of
\* the model or the rejection message, at any confidence, or an exception
MatchOutcomes ==
    [raised : {FALSE}, prediction : Labels \cup {NoClearGesture}, confidence : MatchConfs]
      \cup [raised : {TRUE}, prediction : {ErrorPrediction}, confidence : {0}]

NextMatch ==
    \E m \in ModelIds, lm \in LandmarkInputs, t \in Labels, out \in MatchOutcomes :
        CompareWithTarget(m, lm, t, out, 80)

SpecMatch == Init /\ [][NextMatch]_vars

\* get_label_performance on the statistics of the instance
GetLabelPerformanceCall(model_id, label, user_id) ==
    /\ applied' = [fn |-> "get_label_performance",
                   args |-> [model_id |-> model_id, label |-> label, user_id |-> user_id],
                   value |-> GetLabelPerformance(session_stats, model_id, label, user_id)]
    /\ UNCHANGED <<learnVars, mlVars, dbVars, jobVars>>

\* a attempts on a label and s successes among them
LabelCounts == {c \in (1..MaxAttempts) \X (0..MaxAttempts) : c[2] <= c[1]}

\* mean confidences, in hundredths
MeanConfs == {59, 60, 79, 80, 100}

\* the statistics a label can have after some attempts
LabelStatsInputs ==
    {[attempts |-> c[1], successes |-> c[2], confidenceSum |-> mean * c[1]] :
        c \in LabelCounts, mean \in MeanConfs}

\* the answer of get_label_performance on such statistics
ApplyLabelPerformance(label, label_stats) ==
    /\ applied' = [fn |-> "label_performance",
                   args |-> [label |-> label, label_stats |-> label_stats],
                   value |-> LabelPerformance(label, label_stats)]
    /\ UNCHANGED <<learnVars, mlVars, dbVars, jobVars>>

NextLabel ==
    \/ \E p \in ProgressInputs : UpdateProgress(<<"m">>, <<"u">>, p)
    \/ \E label \in Labels : GetLabelPerformanceCall(<<"m">>, label, <<"u">>)
    \/ \E label_stats \in LabelStatsInputs : ApplyLabelPerformance(<<"A">>, label_stats)

SpecLabel == Init /\ [][NextLabel]_vars

\* the training runs drawn while the steps of predict are looked at
PredictTrainFailures == {{}, {"h5"}, {"label_pkl", "label_json"}}

\* predict on every kind of landmark list, on models trained or not
NextPredict ==
    \/ \E i \in Instances, m \in ModelIds, dataOk \in BOOLEAN, fails \in PredictTrainFailures :
          TrainModel(i, m, dataOk, fails, FALSE)
    \/ \E i \in Instances, m \in ModelIds, lm \in LandmarkKinds \cup StepFailureKinds :
          Predict(i, m, lm)
    \/ \E m \in ModelIds, lm \in LandmarkKinds \cup StepFailureKinds :
          PredictOnNewInstance(m, lm)

SpecPredict == Init /\ [][NextPredict]_vars

\* train_model, with every combination of persistence failures, and predict
\* on a good landmark list, on long-lived and per-request instances
NextML ==
    \/ \E i \in Instances, m \in ModelIds, dataOk \in BOOLEAN,
          fails \in SUBSET PersistSteps, truncated \in BOOLEAN :
          TrainModel(i, m, dataOk, fails, truncated)
    \/ \E m \in ModelIds, dataOk \in BOOLEAN,
          fails \in SUBSET PersistSteps, truncated \in BOOLEAN :
          TrainModelOnNewInstance(m, dataOk, fails, truncated)
    \/ \E i \in Instances, m \in ModelIds : Predict(i, m, "ok")
    \/ \E m \in ModelIds : PredictOnNewInstance(m, "ok")

SpecML == Init /\ [][NextML]_vars

-----------------------------------------------------------------------------
(* The models and detection routes: create, train in the background,       *)
(* delete, predict                                                         *)

\* POST /create: a record with status "training" under a new uuid, and the
\* background task
CreateModel(model_id) ==
    /\ dbModels[model_id] = "none"
    /\ bg[model_id] = "none"
    /\ dbModels' = [dbModels EXCEPT ![model_id] = "training"]
    /\ bg' = [bg EXCEPT ![model_id] = "scheduled"]
    /\ UNCHANGED <<applied, dbSessions, bgFails, learnVars, mlVars, jobVars>>

\* the status train_model_background leaves on the model record
ModelStatusAfter(status, raised) ==
    IF status = "none" THEN "none" ELSE IF raised THEN "error" ELSE "ready"

\* the status train_model_background leaves on its training session, which
\* it created with status "training"
SessionStatusAfter(modelStatus, raised) ==
    IF raised THEN "error" ELSE IF modelStatus = "none" THEN "training" ELSE "completed"

\* train_model_background, from the insert of the session to the last
\* commit: train_model never suspends, so the task runs in one piece
TrainModelBackground(model_id, dataOk, fails, truncated) ==
    /\ bg[model_id] = "scheduled"
    /\ bg' = [bg EXCEPT ![model_id] = "done"]
    /\ nextRun' = nextRun + 1
    /\ runModel' = Append(runModel, model_id)
    /\ LET run == nextRun + 1
           res == Persist(disk[model_id], run, dataOk, fails, truncated)
       IN /\ disk' = [disk EXCEPT ![model_id] = res.disk]
          /\ IF res.raised
             THEN UNCHANGED <<cache, latest>>
             ELSE /\ cache' = [cache EXCEPT !["routes"] =
                        (model_id :> [model |-> run, encoder |-> run, scaler |-> run]) @@ @]
                  /\ latest' = [latest EXCEPT ![model_id] = run]
          /\ dbModels' = [dbModels EXCEPT ![model_id] = ModelStatusAfter(@, res.raised)]
          /\ dbSessions' = [dbSessions EXCEPT ![model_id] =
                                SessionStatusAfter(dbModels[model_id], res.raised)]
    /\ bgFails' = [bgFails EXCEPT ![model_id] =
                      IF ~dataOk THEN {"data"}
                      ELSE IF "h5" \in fails THEN {"h5"} ELSE fails]
    /\ UNCHANGED <<applied, used, learnVars, jobVars>>

\* DELETE /{model_id}: the files, then the record
DeleteModel(model_id) ==
    /\ dbModels[model_id] # "none"
    /\ disk' = [disk EXCEPT ![model_id] = NoDir]
    /\ dbModels' = [dbModels EXCEPT ![model_id] = "none"]
    /\ UNCHANGED <<applied, cache, used, nextRun, latest, runModel, dbSessions, bg, bgFails,
                   learnVars, jobVars>>

\* POST /{model_id}/predict of the models routes, on the module-level instance
RoutePredict(model_id, lm) ==
    /\ dbModels[model_id] # "none"
    /\ IF dbModels[model_id] # "ready"
       THEN /\ used' = [outcome |-> "http 400", inst |-> "routes", model_id |-> model_id]
            /\ UNCHANGED cache
       ELSE LET comp == Components(cache["routes"], disk[model_id], model_id) IN
            /\ cache' = IF comp.raised THEN cache
                        ELSE [cache EXCEPT !["routes"] = (model_id :> CacheEntry(comp)) @@ @]
            /\ used' = UsedRecord("routes", model_id, disk[model_id], comp, lm, LastRun(model_id))
    /\ UNCHANGED <<applied, disk, nextRun, latest, runModel, learnVars, dbVars, jobVars>>

\* POST /{model_id}/predict of the detection routes, on its own MLService()
DetectionPredict(model_id, lm) ==
    /\ dbModels[model_id] # "none"
    /\ IF dbModels[model_id] # "ready"
       THEN used' = [outcome |-> "http 400", inst |-> "request", model_id |-> model_id]
       ELSE LET comp == Components(<<>>, disk[model_id], model_id) IN
            used' = UsedRecord("request", model_id, disk[model_id], comp, lm, LastRun(model_id))
    /\ UNCHANGED <<applied, disk, cache, nextRun, latest, runModel, learnVars, dbVars, jobVars>>

NextRoutes ==
    \/ \E m \in ModelIds : CreateModel(m)
    \/ \E m \in ModelIds, dataOk \in BOOLEAN,
          fails \in SUBSET PersistSteps, truncated \in BOOLEAN :
          TrainModelBackground(m, dataOk, fails, truncated)
    \/ \E m \in ModelIds : DeleteModel(m)
    \/ \E m \in ModelIds, lm \in LandmarkKinds : RoutePredict(m, lm)
    \/ \E m \in ModelIds, lm \in LandmarkKinds : DetectionPredict(m, lm)

SpecRoutes == Init /\ [][NextRoutes]_vars

\* the item of a batch at which batch_predict stops: the first one on
\* which predict raises, the last one otherwise
LastPredicted(comp, batch) ==
    IF \E i \in 1..Len(batch) : PredictOutcome(comp, batch[i]) = "raise"
    THEN CHOOSE i \in 1..Len(batch) :
            /\ PredictOutcome(comp, batch[i]) = "raise"
            /\ \A j \in 1..(i - 1) : PredictOutcome(comp, batch[j]) # "raise"
    ELSE Len(batch)

\* POST /{model_id}/batch-predict of the detection routes: the record is
\* looked up, and predict is called item by item on the request's own
\* MLService() until one call raises; used is the last of these calls
BatchPredict(model_id, batch) ==
    /\ dbModels[model_id] # "none"
    /\ LET comp == Components(<<>>, disk[model_id], model_id) IN
       used' = UsedRecord("request", model_id, disk[model_id], comp,
                          batch[LastPredicted(comp, batch)], LastRun(model_id))
    /\ UNCHANGED <<applied, disk, cache, nextRun, latest, runModel, learnVars, dbVars, jobVars>>

\* POST /{model_id}/compare of the learning routes: the request schema
\* refuses a list that is not 21 long, the handler a model that is not
\* ready and a target label the model does not have; compare_with_target
\* then predicts on the MLService() of the request's LearningService()
ComparePractice(model_id, lm, labelKnown) ==
    /\ dbModels[model_id] # "none"
    /\ IF lm = "count"
       THEN used' = [outcome |-> "http 422", inst |-> "request", model_id |-> model_id]
       ELSE IF dbModels[model_id] # "ready" \/ ~labelKnown
       THEN used' = [outcome |-> "http 400", inst |-> "request", model_id |-> model_id]
       ELSE LET comp == Components(<<>>, disk[model_id], model_id) IN
            used' = UsedRecord("request", model_id, disk[model_id], comp, lm, LastRun(model_id))
    /\ UNCHANGED <<applied, disk, cache, nextRun, latest, runModel, learnVars, dbVars, jobVars>>

\* the batches sent: one or two landmark lists
Batches == UNION {[1..n -> LandmarkKinds] : n \in 1..2}

\* the routes, with all four entry points to inference
NextInference ==
    \/ NextRoutes
    \/ \E m \in ModelIds, batch \in Batches : BatchPredict(m, batch)
    \/ \E m \in ModelIds, lm \in LandmarkKinds, labelKnown \in BOOLEAN :
          ComparePractice(m, lm, labelKnown)

SpecInference == Init /\ [][NextInference]_vars

-----------------------------------------------------------------------------
(* TrainingService: the job table *)

JobStatuses == {"preparing", "training", "completed", "error", "cancelled"}

\* the first job of a model in the table, 0 if there is none
FirstJob(jobs, model_id) ==
    IF \E j \in 1..Len(jobs) : jobs[j].model_id = model_id
    THEN CHOOSE j \in 1..Len(jobs) :
            /\ jobs[j].model_id = model_id
            /\ \A i \in 1..(j - 1) : jobs[i].model_id # model_id
    ELSE 0

\* the first job of a model that cancel_training may still cancel
FirstActiveJob(jobs, model_id) ==
    LET active == {j \in 1..Len(jobs) :
                      jobs[j].model_id = model_id /\ jobs[j].status \in {"preparing", "training"}}
    IN IF active = {} THEN 0 ELSE CHOOSE j \in active : \A i \in active : j <= i

\* get_training_progress: the job record, or None
TrainingProgress(jobs, model_id) ==
    IF FirstJob(jobs, model_id) = 0 THEN None
    ELSE [job_id |-> FirstJob(jobs, model_id), model_id |-> model_id,
          status |-> jobs[FirstJob(jobs, model_id)].status]

\* start_training: the job is entered as "preparing" and a task is created.
\* Next to the status each job keeps what happened to it: the statuses it was
\* given, whether its task has run, whether train_model was called for it
\* and the status in which a cancel request found it.
StartTraining(model_id) ==
    /\ Len(training_jobs) < MaxJobs
    /\ training_jobs' = Append(training_jobs,
            [model_id |-> model_id, status |-> "preparing", task |-> "scheduled",
             log |-> <<"preparing">>, trained |-> FALSE, cancelledIn |-> "none"])
    /\ poll' = [op |-> "start_training", model_id |-> model_id,
                result |-> [job_id |-> Len(training_jobs) + 1]]
    /\ UNCHANGED <<applied, learnVars, mlVars, dbVars>>

\* the status _train_model_async gives the job when train_model is through
StatusAfterTraining(raised) == IF raised THEN "error" ELSE "completed"

\* _train_model_async: the task sets "training", calls train_model on the
\* service's own MLService and records the outcome
TrainModelAsync(j, dataOk, fails, truncated) ==
    /\ j \in 1..Len(training_jobs)
    /\ training_jobs[j].task = "scheduled"
    /\ nextRun' = nextRun + 1
    /\ runModel' = Append(runModel, training_jobs[j].model_id)
    /\ LET model_id == training_jobs[j].model_id
           run == nextRun + 1
           res == Persist(disk[model_id], run, dataOk, fails, truncated)
       IN /\ disk' = [disk EXCEPT ![model_id] = res.disk]
          /\ latest' = IF res.raised THEN latest ELSE [latest EXCEPT ![model_id] = run]
          /\ training_jobs' = [training_jobs EXCEPT
                ![j].status = StatusAfterTraining(res.raised),
                ![j].task = "done",
                ![j].trained = TRUE,
                ![j].log = @ \o <<"training", StatusAfterTraining(res.raised)>>]
    /\ UNCHANGED <<applied, cache, used, poll, learnVars, dbVars>>

\* cancel_training on the instance that holds the jobs
CancelTraining(model_id) ==
    LET j == FirstActiveJob(training_jobs, model_id) IN
    /\ IF j = 0
       THEN UNCHANGED training_jobs
       ELSE training_jobs' = [training_jobs EXCEPT
                ![j].status = "cancelled",
                ![j].cancelledIn = training_jobs[j].status,
                ![j].log = Append(@, "cancelled")]
    /\ poll' = [op |-> "cancel_training", model_id |-> model_id, result |-> [success |-> (j # 0)]]
    /\ UNCHANGED <<applied, learnVars, mlVars, dbVars>>

\* get_training_progress on the instance that holds the jobs
GetTrainingProgress(model_id) ==
    /\ poll' = [op |-> "get_training_progress", model_id |-> model_id,
                result |-> TrainingProgress(training_jobs, model_id)]
    /\ UNCHANGED <<applied, training_jobs, learnVars, mlVars, dbVars>>

\* GET /progress/{model_id}: asked of a new TrainingService()
RouteGetTrainingProgress(model_id) ==
    /\ poll' = [op |-> "route_progress", model_id |-> model_id,
                result |-> TrainingProgress(<<>>, model_id)]
    /\ UNCHANGED <<applied, training_jobs, learnVars, mlVars, dbVars>>

\* POST /cancel/{model_id}: asked of a new TrainingService()
RouteCancelTraining(model_id) ==
    /\ poll' = [op |-> "route_cancel", model_id |-> model_id,
                result |-> [success |-> (FirstActiveJob(<<>>, model_id) # 0)]]
    /\ UNCHANGED <<applied, training_jobs, learnVars, mlVars, dbVars>>

\* the persistence failures drawn for the runs of the job table
JobFailures == {{}, {"label_json"}}

NextJobs ==
    \/ \E m \in ModelIds : StartTraining(m)
    \/ \E j \in 1..MaxJobs, dataOk \in BOOLEAN, fails \in JobFailures :
          TrainModelAsync(j, dataOk, fails, FALSE)
    \/ \E m \in ModelIds : CancelTraining(m)
    \/ \E m \in ModelIds : GetTrainingProgress(m)
    \/ \E m \in ModelIds : RouteGetTrainingProgress(m)
    \/ \E m \in ModelIds : RouteCancelTraining(m)

SpecJobs == Init /\ [][NextJobs]_vars

-----------------------------------------------------------------------------
(* Single functions applied to inputs of their own *)

\* the tail of predict on one classifier output
ApplyClassify(in) ==
    /\ applied' = [fn |-> "classify", args |-> in,
                   value |-> Classify(in.class_names, in.probs)]
    /\ UNCHANGED <<learnVars, mlVars, dbVars, jobVars>>

NextClassify == \E in \in ProbVectors : ApplyClassify(in)

SpecClassify == Init /\ [][NextClassify]_vars

NextTrain ==
    \E i \in Instances, training_data \in TrainingInputs, accuracy \in Accuracies :
        \E labels \in Orderings(LabelSet(training_data)) :
            TrainModelOnData(i, <<"m">>, training_data, labels, {}, accuracy)

SpecTrain == Init /\ [][NextTrain]_vars

\* _calculate_similarity_score(user_landmarks, target_label, model_id) on a
\* Dataset table
ApplySimilarity(in) ==
    /\ applied' = [fn |-> "calculate_similarity_score",
                   args |-> [dataset |-> in.dataset, user_landmarks |-> in.user_landmarks,
                             target_label |-> <<"A">>, model_id |-> <<"m">>,
                             picked |-> in.picked, query_fails |-> in.query_fails],
                   value |-> [similarity |->
                        CalculateSimilarityFromDataset(in.dataset, in.user_landmarks, <<"A">>,
                                                       <<"m">>, in.picked, in.query_fails)]]
    /\ UNCHANGED <<learnVars, mlVars, dbVars, jobVars>>

NextSimilarity == \E in \in SimilarityInputs : ApplySimilarity(in)

SpecSimilarity == Init /\ [][NextSimilarity]_vars

\* the prediction of the k-th comparison that a key records
OutcomeOfComparison(k) ==
    <<[raised |-> FALSE, prediction |-> <<"A">>, confidence |-> 50],
      [raised |-> FALSE, prediction |-> <<"A">>, confidence |-> 90],
      [raised |-> FALSE, prediction |-> NoClearGesture, confidence |-> 40]>>[(k % 3) + 1]

\* the results that the calls which did not fail have returned so far,
\* by key
RecordedSoFar ==
    IF applied.fn = "compare_with_target" THEN applied.value.recorded ELSE <<>>

Recorded(cache_key) ==
    IF cache_key \in DOMAIN RecordedSoFar THEN RecordedSoFar[cache_key] ELSE <<>>

\* compare_with_target on one instance, call after call; applied keeps what
\* the calls returned
CompareAndRecord(model_id, target_label, raised) ==
    LET cache_key == model_id \o <<"_">> \o target_label
        landmarks == [count |-> 21, handSpan |-> 20, complete |-> TRUE]
        out == IF raised
               THEN [raised |-> TRUE, prediction |-> ErrorPrediction, confidence |-> 0]
               ELSE OutcomeOfComparison(Len(Recorded(cache_key)) + 1)
    IN /\ CompareWithTargetWithin(MaxHistory, model_id, landmarks, target_label, out, 80)
       /\ applied' = [fn |-> "compare_with_target",
                      args |-> [model_id |-> model_id, target_label |-> target_label],
                      value |-> [recorded |->
                          IF ret'.raised THEN RecordedSoFar
                          ELSE (cache_key :> Append(Recorded(cache_key), ret'.result))
                                   @@ RecordedSoFar]]

NextHistory ==
    \E t \in Labels, raised \in BOOLEAN : CompareAndRecord(<<"m">>, t, raised)

SpecHistory == Init /\ [][NextHistory]_vars

\* get_reference_images(model_id) on a Dataset table
ApplyReferenceImages(dataset) ==
    /\ applied.fn = "none"
    /\ applied' = [fn |-> "get_reference_images",
                   args |-> [dataset |-> dataset, model_id |-> <<"m">>],
                   value |-> [references |-> GetReferenceImages(dataset, <<"m">>)]]
    /\ UNCHANGED <<learnVars, mlVars, dbVars, jobVars>>

NextReferences == \E dataset \in ReferenceTables : ApplyReferenceImages(dataset)

SpecReferences == Init /\ [][NextReferences]_vars

\* _extract_features_fixed on a landmark list, for the first time
ApplyExtractFeatures(landmarks) ==
    /\ applied' = [fn |-> "extract_features",
                   args |-> [landmarks |-> landmarks, invocation |-> 1],
                   value |-> ExtractFeaturesFixed(landmarks)]
    /\ UNCHANGED <<learnVars, mlVars, dbVars, jobVars>>

\* _extract_features_fixed once more on the list of the last invocation;
\* before is what the last invocation gave
ApplyExtractFeaturesAgain ==
    /\ applied.fn = "extract_features"
    /\ applied.args.invocation < MaxInvocations
    /\ applied' = [fn |-> "extract_features",
                   args |-> [landmarks |-> applied.args.landmarks,
                             invocation |-> applied.args.invocation + 1,
                             before |-> applied.value],
                   value |-> ExtractFeaturesFixed(applied.args.landmarks)]
    /\ UNCHANGED <<learnVars, mlVars, dbVars, jobVars>>

NextFeatures ==
    \/ \E landmarks \in HandInputs : ApplyExtractFeatures(landmarks)
    \/ ApplyExtractFeaturesAgain

SpecFeatures == Init /\ [][NextFeatures]_vars

-----------------------------------------------------------------------------
(* Concurrent update_progress calls on one instance.  update_progress has   *)
(* no suspension point before its last statement, so the event loop runs    *)
(* the calls that are waiting one after the other, in any order.            *)

SubmitUpdate(c, model_id, user_id, p) ==
    /\ calls[c].pc = "idle"
    /\ calls' = [calls EXCEPT ![c] =
            [pc |-> "pending", model_id |-> model_id, user_id |-> user_id, p |-> p,
             atCall |-> LiveEntry(session_stats, SessionKey(model_id, user_id), NewStats),
             overlapped |-> FALSE]]
    /\ UNCHANGED <<applied, session_stats, comparison_cache, hist, ret, nUpdates, nCompares, mlVars, dbVars, jobVars>>

RunUpdate(c) ==
    /\ calls[c].pc = "pending"
    /\ LET model_id == calls[c].model_id
           user_id == calls[c].user_id
           p == calls[c].p
           k == SessionKey(model_id, user_id)
           old == IF k \in DOMAIN hist THEN hist[k] ELSE <<>>
           others == {d \in 1..NumCalls \ {c} : calls[d].pc = "pending"}
       IN /\ session_stats' = UpdateProgressStats(session_stats, model_id, user_id, p,
                                                  calls[c].atCall)
          /\ hist' = (k :> Append(old, p.isCorrect)) @@ hist
          /\ ret' = [op |-> "update_progress", model_id |-> model_id, user_id |-> user_id,
                     result |-> GetSessionStats(session_stats', model_id, user_id)]
          /\ calls' = [calls EXCEPT ![c].pc = "done",
                          ![c].overlapped = \E d \in others :
                              SessionKey(calls[d].model_id, calls[d].user_id) = k]
    /\ nUpdates' = nUpdates + 1
    /\ UNCHANGED <<applied, comparison_cache, nCompares, mlVars, dbVars, jobVars>>

NextConc ==
    \/ \E c \in 1..NumCalls, m \in ModelIds, u \in UserIds, p \in PracticeInputs :
          SubmitUpdate(c, m, u, p)
    \/ \E c \in 1..NumCalls : RunUpdate(c)

SpecConc == Init /\ [][NextConc]_vars

-----------------------------------------------------------------------------
(* Claims about the session statistics *)

SessionKeys == {SessionKey(m, u) : m \in ModelIds, u \in UserIds}

\* hist[k] is n correct attempts followed by one incorrect attempt
CorrectThenMiss(h, n) ==
    /\ Len(h) = n + 1
    /\ ~h[n + 1]
    /\ \A i \in 1..n : h[i]

\* C1: for a key without prior stats, after N >= 0 consecutive correct
\* update_progress calls followed by one incorrect call, the stored and the
\* returned currentStreak are 0 and the stored and returned bestStreak are N.
C1_StreakResetKeepsBest ==
    \A k \in DOMAIN hist :
        \A n \in 0..MaxUpdates :
            CorrectThenMiss(hist[k], n) =>
                /\ session_stats[k].currentStreak = 0
                /\ session_stats[k].bestStreak = n
                /\ (ret.op = "update_progress" /\ SessionKey(ret.model_id, ret.user_id) = k)
                     => (ret.result.currentStreak = 0 /\ ret.result.bestStreak = n)

C1_Witness ==
    \E k \in DOMAIN hist :
        /\ CorrectThenMiss(hist[k], 2)
        /\ ret.op = "update_progress"
        /\ SessionKey(ret.model_id, ret.user_id) = k
        /\ ret.result.bestStreak = 2

\* C2: after reset_user_progress(M, U) has returned, get_session_stats(M, U)
\* is the all-zero default and the comparison history holds no result that
\* compare_with_target recorded for model M.
C2_ResetClearsStatsAndHistory ==
    ret.op = "reset_user_progress" =>
        /\ GetSessionStats(session_stats, ret.model_id, ret.user_id) = DefaultSessionStats
        /\ \A k \in DOMAIN comparison_cache :
              \A i \in 1..Len(comparison_cache[k]) :
                 comparison_cache[k][i].model_id # ret.model_id

\* C3: once an update_progress for (M, U) has been served and no reset of
\* (M, U) followed, every read of the stats of (M, U), on the instance or
\* through GET /{model_id}/stats, reports totalAttempts >= 1.
C3_StatsOutliveTheRequest ==
    (/\ ret.op \in {"get_session_stats", "route_stats"}
     /\ ret.user_id # None
     /\ SessionKey(ret.model_id, ret.user_id) \in DOMAIN hist)
        => ret.result.totalAttempts >= 1

\* C4: when k update_progress calls for one key were waiting together, after
\* they have run (in any order) totalAttempts has grown by exactly k and
\* correctAttempts by the number of those calls with isCorrect.
C4_NoLostUpdate ==
    \A k \in SessionKeys :
        LET done == {c \in 1..NumCalls :
                        /\ calls[c].pc = "done"
                        /\ SessionKey(calls[c].model_id, calls[c].user_id) = k}
        IN done # {} =>
              /\ k \in DOMAIN session_stats
              /\ session_stats[k].totalAttempts = Cardinality(done)
              /\ session_stats[k].correctAttempts =
                    Cardinality({c \in done : calls[c].p.isCorrect})

C4_Witness ==
    /\ \A c \in 1..NumCalls : calls[c].pc = "done"
    /\ \E c, d \in 1..NumCalls :
          /\ c # d
          /\ calls[c].overlapped
          /\ SessionKey(calls[c].model_id, calls[c].user_id)
               = SessionKey(calls[d].model_id, calls[d].user_id)
          /\ calls[c].p.isCorrect
          /\ ~calls[d].p.isCorrect

-----------------------------------------------------------------------------
(* Claims about the trained artifact and its cache *)

\* C5: once the latest training run for M has returned, every later
\* predict(M), on any MLService instance, from its cache or from disk, runs
\* the classifier of that latest run.
C5_PredictUsesLatestRun ==
    (used.outcome = "ok" /\ used.lastRun # 0) => used.model = used.lastRun

\* C6: the classifier, the standardization transform and the class list a
\* predict(M) call runs with all come from one training run, and that run
\* trained model M.
C6_OneRunPerPrediction ==
    used.outcome = "ok" =>
        /\ used.encoder = used.model
        /\ used.scaler = used.model
        /\ runModel[used.model] = used.model_id

\* C7: a model record with status "ready" has the classifier, the
\* standardization transform and the class list of its training run on disk,
\* and no persistence step of that run failed.
C7_ReadyMeansPersisted ==
    \A m \in ModelIds :
        dbModels[m] = "ready" =>
            /\ bgFails[m] = {}
            /\ disk[m].h5 = latest[m]
            /\ disk[m].scaler = latest[m]
            /\ disk[m].label_pkl = latest[m] \/ disk[m].label_json = latest[m]

\* C8: when train_model_background is through, its training session is
\* "completed" or "error" and the model record, if there still is one, is
\* "ready" or "error".
C8_TrainingReachesTerminalStatus ==
    \A m \in ModelIds :
        bg[m] = "done" =>
            /\ dbSessions[m] \in {"completed", "error"}
            /\ dbModels[m] \in {"none", "ready", "error"}

C15_WrongCountIsInvalidInput ==
    (used.outcome # "none" /\ used.lm = "count") =>
        (used.outcome = "raise" /\ used.error = "Expected 21 landmarks")

\* C16: a failure of feature extraction, of the standardization transform or
\* of the classifier inside predict reaches the caller as an error.
C16_StepFailuresAreRaised ==
    (used.outcome # "none" /\ used.lm \in StepFailureKinds) => used.outcome = "raise"

-----------------------------------------------------------------------------
(* Claims about the training jobs *)

\* C9: a job that cancel_training found in status "preparing" is never given
\* the status "training" or "completed", and train_model is not called for it.
C9_CancelledBeforeStartStaysCancelled ==
    \A j \in 1..Len(training_jobs) :
        training_jobs[j].cancelledIn = "preparing" =>
            /\ ~training_jobs[j].trained
            /\ \A i \in 1..Len(training_jobs[j].log) :
                    training_jobs[j].log[i] \notin {"training", "completed"}

\* C10: after start_training for M, every status poll for M, on the
\* instance or through GET /progress/{model_id}, answers with a record
\* whose status is preparing, training, completed, error or cancelled.
C10_PollFindsTheJob ==
    (/\ poll.op \in {"get_training_progress", "route_progress"}
     /\ \E j \in 1..Len(training_jobs) : training_jobs[j].model_id = poll.model_id)
        => (poll.result # None /\ poll.result.status \in JobStatuses)

\* C13: compare_with_target never lets an exception out, and whenever the
\* prediction or a step of the comparison fails it answers with the fixed
\* error result.
C13_FailuresGiveErrorResult ==
    (/\ ret.op = "compare_with_target"
     /\ ret.raised \/ ret.landmarks.count # 21 \/ ~ret.landmarks.complete)
        => ret.result = ErrorComparison

-----------------------------------------------------------------------------
(* Claims about the result of predict *)

\* C11: predict answers "no clear gesture" exactly when the largest
\* probability is below 0.5, or the entropy is above 2.5, or the first class
\* holding the largest probability is NO_GESTURE; so it never returns
\* NO_GESTURE as a label, and an accepted label has confidence 0.5 or more.
C11_RejectionPolicy ==
    applied.fn = "classify" =>
        LET names == applied.args.class_names
            probs == applied.args.probs
            below == \A i \in 1..Len(probs) : 2 * probs[i] < ProbUnit
            sentinelWins == \E i \in 1..Len(probs) :
                                /\ names[i] = NoGesture
                                /\ \A j \in 1..Len(probs) : probs[j] <= probs[i]
                                /\ \A j \in 1..(i - 1) : probs[j] < probs[i]
            diffuse == CalculateEntropyThreshold(probs) > 2500
            rejected == applied.value.prediction = NoClearGesture
        IN /\ rejected <=> (below \/ diffuse \/ sentinelWins)
           /\ applied.value.prediction # NoGesture
           /\ ~rejected => 2 * applied.value.confidence >= ProbUnit

\* a real label holds half of the mass and is still rejected, for entropy alone
C11_Witness ==
    /\ applied.fn = "classify"
    /\ applied.value.prediction = NoClearGesture
    /\ 2 * applied.value.confidence >= ProbUnit
    /\ applied.args.class_names[ArgMax(applied.args.probs)] # NoGesture

RECURSIVE SumNum(_, _)
SumNum(f, labels) ==
    IF labels = {} THEN 0
    ELSE LET l == CHOOSE x \in labels : TRUE IN f[l].num + SumNum(f, labels \ {l})

\* C12: the probability mapping of an accepted prediction has no entry for
\* NO_GESTURE and its values sum to 1.
C12_AcceptedProbabilitiesNormalized ==
    (applied.fn = "classify" /\ applied.value.prediction # NoClearGesture) =>
        LET pr == applied.value.probabilities IN
        /\ NoGesture \notin DOMAIN pr
        /\ \A l \in DOMAIN pr : pr[l].den > 0
        /\ \A l \in DOMAIN pr : SumNum(pr, DOMAIN pr) = pr[l].den

\* an accepted prediction of a vector that gives the sentinel some mass
C12_Witness ==
    /\ applied.fn = "classify"
    /\ applied.value.prediction = <<"u">>
    /\ \E i \in 1..Len(applied.args.probs) :
          applied.args.class_names[i] = NoGesture /\ applied.args.probs[i] > 0

\* the labels of the samples that have 21 points, each with x, y and z
ValidLabels(training_data) ==
    {training_data[i].label :
        i \in {j \in 1..Len(training_data) :
                  training_data[j].landmarks \notin {"count", "missing_key"}}}

\* C17: a train_model call whose samples, once those with a landmark list
\* that is not 21 long or with a point lacking x, y or z are dropped, are
\* none or carry fewer than 2 distinct labels raises, and it leaves the
\* files on disk and the caches as they were.
C17_InsufficientDataPersistsNothing ==
    [][(/\ nextRun' # nextRun
        /\ applied'.fn = "train_model"
        /\ Cardinality(ValidLabels(applied'.args.training_data)) < 2)
          => (applied'.value.raised /\ disk' = disk /\ cache' = cache)]_vars

\* a run on samples of one label only, an invalid sample of another label
\* among them, raised on a model an earlier run had trained
C17_Witness ==
    /\ applied.fn = "train_model"
    /\ applied.value.raised
    /\ applied.value.error = "Need at least 2 different classes"
    /\ \E i \in 1..Len(applied.args.training_data) :
          applied.args.training_data[i].landmarks = "missing_key"
    /\ disk[applied.args.model_id].h5 = 1
    /\ Cached(cache["routes"], applied.args.model_id)
    /\ nextRun = 2

\* the number of samples of a request that are valid
ValidCount(training_data) ==
    Cardinality({i \in 1..Len(training_data) : training_data[i].landmarks = "ok"})

\* C18: the metrics a successful train_model run returns have an accuracy
\* field and a totalSamples that is at least the number of valid samples
\* supplied.
C18_MetricsCountAllSamples ==
    (applied.fn = "train_model" /\ ~applied.value.raised) =>
        /\ "accuracy" \in DOMAIN applied.value.metrics
        /\ applied.value.metrics.totalSamples >= ValidCount(applied.args.training_data)

\* C19: compare_with_target reports isMatch exactly when the predicted label
\* is the target label and the confidence is at least 0.75.
C19_MatchDecision ==
    ret.op = "compare_with_target" =>
        (ret.result.isMatch <=>
            (ret.result.prediction = ret.target_label /\ ret.result.confidence >= 75))

\* a match at the threshold itself
C19_Witness ==
    /\ ret.op = "compare_with_target"
    /\ ret.result.isMatch
    /\ ret.result.prediction = ret.target_label
    /\ ret.result.confidence = 75

\* the difficulty the rule gives for s successes in a attempts at a mean
\* confidence of num/den hundredths
DifficultyRule(s, a, num, den) ==
    IF 100 * s >= 80 * a /\ num >= 80 * den THEN "easy"
    ELSE IF 100 * s >= 60 * a /\ num >= 60 * den THEN "medium"
    ELSE IF 100 * s >= 40 * a THEN "hard"
    ELSE "very_hard"

\* C20: for a label with at least one attempt, get_label_performance reports
\* successRate = successes/attempts x 100 and the difficulty "easy" if
\* successRate >= 80 and averageConfidence >= 0.8, else "medium" if
\* successRate >= 60 and averageConfidence >= 0.6, else "hard" if
\* successRate >= 40, else "very_hard".
C20_DifficultyOfLabel ==
    (applied.fn \in {"get_label_performance", "label_performance"}
        /\ applied.value.attempts >= 1) =>
        LET r == applied.value IN
        /\ r.successRate.den > 0
        /\ r.successRate.num * r.attempts = 100 * r.successes * r.successRate.den
        /\ r.averageConfidence.den > 0
        /\ r.difficulty = DifficultyRule(r.successes, r.attempts,
                                         r.averageConfidence.num, r.averageConfidence.den)

\* four successes in five attempts at a mean confidence of exactly 0.8: easy
C20_Witness ==
    /\ applied.fn = "label_performance"
    /\ applied.value.attempts = 5
    /\ applied.value.successes = 4
    /\ applied.value.averageConfidence = Quotient(400, 5)
    /\ applied.value.difficulty = "easy"

C22_UniformIsDiffuse ==
    (/\ applied.fn = "classify"
     /\ Len(applied.args.probs) >= 6
     /\ \A i \in 1..Len(applied.args.probs) : applied.args.probs[i] = applied.args.probs[1])
        => CalculateEntropyThreshold(applied.args.probs) > 2500

\* a landmark list that is 21 points with x, y and z each
WellFormed(landmarks) ==
    Len(landmarks) = 21 /\ \A i \in 1..21 : {"x", "y", "z"} \subseteq DOMAIN landmarks[i]

\* clamp(1 - 10 x mean per-point distance, 0, 1), in thousandths
ClampedSimilarity(l1, l2) ==
    LET raw == 1000 - (100 * SumDistances(l1, l2, 21)) \div 21 IN
    IF raw < 0 THEN 0 ELSE IF raw > 1000 THEN 1000 ELSE raw

\* C23: the similarity reported is between 0 and 1 and is the maximum, over
\* the stored samples of the label that the query returned, 5 at most, of
\* the clamped similarity to each; it is 1.0 when the shown hand is one of
\* these samples and 0.0 when there is none or no comparison can be made.
C23_SimilarityIsBestOfFive ==
    applied.fn = "calculate_similarity_score" =>
        LET a == applied.args
            value == applied.value.similarity
            stored == MatchingRows(a.dataset, a.model_id, a.target_label)
            refs == IF a.query_fails THEN {} ELSE a.picked
            comparable == {i \in refs : WellFormed(a.user_landmarks)
                                          /\ WellFormed(stored[i].landmarks)}
            scores == {ClampedSimilarity(a.user_landmarks, stored[i].landmarks) :
                          i \in comparable}
        IN /\ Cardinality(refs) <= 5
           /\ refs \subseteq 1..Len(stored)
           /\ value >= 0 /\ value <= 1000
           /\ comparable = {} => value = 0
           /\ comparable # {} => (value \in scores /\ \A x \in scores : x <= value)
           /\ (\E i \in comparable : stored[i].landmarks = a.user_landmarks)
                  => value = 1000

\* six samples of the label are stored, the sixth is the shown hand, and
\* the query returned it among its five
C23_Witness ==
    /\ applied.fn = "calculate_similarity_score"
    /\ Len(applied.args.dataset) = 6
    /\ applied.args.dataset[6].landmarks = applied.args.user_landmarks
    /\ 6 \in applied.args.picked
    /\ ~applied.args.query_fails
    /\ applied.value.similarity = 1000

\* C24: after a successful training run the class list that was persisted,
\* the one predict maps an arg-max index with, ends with the sentinel
\* NO_GESTURE and has as many entries as the classifier has output units.
C24_ClassListMatchesOutputs ==
    (applied.fn = "train_model" /\ ~applied.value.raised) =>
        LET classes == applied.value.label_data.classes IN
        /\ classes[Len(classes)] = NoGesture
        /\ Len(classes) = applied.value.label_data.units

\* C25: in every stats record that is stored, 0 <= currentStreak <=
\* bestStreak <= correctAttempts <= totalAttempts.
C25_StreaksAreOrdered ==
    \A k \in DOMAIN session_stats :
        /\ 0 <= session_stats[k].currentStreak
        /\ session_stats[k].currentStreak <= session_stats[k].bestStreak
        /\ session_stats[k].bestStreak <= session_stats[k].correctAttempts
        /\ session_stats[k].correctAttempts <= session_stats[k].totalAttempts

\* a record after a correct attempt and a miss, next to the record of
\* another pair that is on a streak
C25_Witness ==
    \E k \in DOMAIN session_stats :
        /\ session_stats[k].currentStreak = 0
        /\ session_stats[k].bestStreak = 1
        /\ session_stats[k].correctAttempts = 1
        /\ session_stats[k].totalAttempts = 2
        /\ \E j \in DOMAIN session_stats : j # k /\ session_stats[j].currentStreak = 1

\* C26: get_reference_images returns one reference per distinct label stored
\* for the model, in the order of the label names, and the reference of a
\* label is the first of its samples that has the largest quality score.
C26_BestReferencePerLabel ==
    applied.fn = "get_reference_images" =>
        LET dataset == applied.args.dataset
            references == applied.value.references
            stored == {i \in 1..Len(dataset) : dataset[i].model_id = applied.args.model_id}
        IN /\ {references[k].label : k \in 1..Len(references)}
                  = {dataset[i].label : i \in stored}
           /\ Len(references) = Cardinality({dataset[i].label : i \in stored})
           /\ \A k \in 1..(Len(references) - 1) :
                  \E a, b \in 1..Len(LabelOrder) :
                      /\ a < b
                      /\ LabelOrder[a] = references[k].label
                      /\ LabelOrder[b] = references[k + 1].label
           /\ \A k \in 1..Len(references) :
                  LET of_label == {i \in stored : dataset[i].label = references[k].label}
                  IN \E i \in of_label :
                         /\ references[k].referenceImage = dataset[i].image_data
                         /\ references[k].landmarks = dataset[i].landmarks
                         /\ \A j \in of_label :
                                /\ CalculateReferenceQualityScore(dataset[j])
                                       <= CalculateReferenceQualityScore(dataset[i])
                                /\ j < i => CalculateReferenceQualityScore(dataset[j])
                                                < CalculateReferenceQualityScore(dataset[i])

\* two labels are stored in the reverse of their order, and the first and
\* the last sample are two of one label with the same score
C26_Witness ==
    /\ applied.fn = "get_reference_images"
    /\ Len(applied.value.references) = 2
    /\ LET dataset == applied.args.dataset
       IN /\ Len(dataset) = 3
          /\ dataset[1].label = <<"u">>
          /\ dataset[2].label = <<"A">>
          /\ dataset[3].label = <<"u">>
          /\ dataset[1].landmarks # dataset[3].landmarks
          /\ CalculateReferenceQualityScore(dataset[1])
                 = CalculateReferenceQualityScore(dataset[3])
          /\ applied.value.references[1].label = <<"A">>
          /\ applied.value.references[2].referenceImage = 1

\* C27: a step of update_progress or reset_user_progress on a pair of a
\* model and a user leaves the session stats of every other pair as they
\* were, whatever the identifiers are.
C27_OtherPairsUntouched ==
    [][\A m1 \in ModelIds, u1 \in UserIds :
           (/\ ret'.op \in {"update_progress", "reset_user_progress"}
            /\ ret'.model_id = m1
            /\ ret'.user_id = u1)
           => \A m2 \in ModelIds, u2 \in UserIds :
                  <<m2, u2>> # <<m1, u1>>
                  => GetSessionStats(session_stats', m2, u2)
                         = GetSessionStats(session_stats, m2, u2)]_vars

\* C28: a job whose status is completed, error or cancelled keeps that
\* status in every later step of start_training, _train_model_async and
\* cancel_training.
C28_TerminalStatusIsFinal ==
    [][\A j \in 1..Len(training_jobs) :
           training_jobs[j].status \in {"completed", "error", "cancelled"}
           => training_jobs'[j].status = training_jobs[j].status]_vars

\* C29: after any sequence of compare_with_target calls, the history of a
\* key has at most 50 results, and they are the most recent results that
\* the calls for this model and target label returned without failing, in
\* the order of the calls.
C29_HistoryIsLastFifty ==
    applied.fn = "compare_with_target" =>
        /\ DOMAIN comparison_cache = DOMAIN applied.value.recorded
        /\ \A k \in DOMAIN comparison_cache :
               LET history == comparison_cache[k]
                   returned == applied.value.recorded[k]
                   dropped == Len(returned) - Len(history)
               IN /\ Len(history) <= 50
                  /\ Len(history) = IF Len(returned) < 50 THEN Len(returned) ELSE 50
                  /\ \A i \in 1..Len(history) :
                         /\ history[i].result = returned[dropped + i]
                         /\ k = history[i].model_id \o <<"_">> \o history[i].target_label

\* a key for which 51 comparisons were recorded, the oldest of which the
\* history has dropped, next to a key with a shorter history
C29_Witness ==
    /\ applied.fn = "compare_with_target"
    /\ \E k \in DOMAIN comparison_cache :
           /\ Len(applied.value.recorded[k]) = 51
           /\ Len(comparison_cache[k]) = 50
           /\ comparison_cache[k][1].result = applied.value.recorded[k][2]
           /\ comparison_cache[k][1].result # applied.value.recorded[k][1]
           /\ \E other \in DOMAIN comparison_cache : Len(comparison_cache[other]) = 1

\* C30: every step in which one of the four entry points to inference (the
\* predict routes of models and detection, batch predict, learning
\* compare) calls MLService.predict is a step on a model whose record says
\* "ready"; for a model that is "training" or "error" the request is
\* refused and predict is not called.
C30_InferenceOnlyWhenReady ==
    [][(used' # used /\ used'.outcome \notin {"none", "http 400", "http 422"})
           => dbModels[used'.model_id] = "ready"]_vars

====
